---------------------------- MODULE Spec2Model ----------------------------
(***************************************************************************)
(* IsoLog: hash chain (backend/blockchain), parser registry and CSV parser *)
(* (backend/parsers), Sigma rule matcher (backend/detection/sigma).        *)
(*                                                                         *)
(* Every subsystem has its own variables, its own initial predicate and    *)
(* its own next-state relation; a specification of one subsystem leaves    *)
(* the variables of the others at their initial values.                    *)
(*                                                                         *)
(* Strings that the program builds by concatenation (hash inputs, hex      *)
(* digests, JSON text) are sequences of string tokens.  SHA-256 is the     *)
(* free injective constructor hash_string: the digest of a text is the     *)
(* text between the tokens "H(" and ")", so two digests are equal exactly  *)
(* when their inputs are, and the concatenation of two digests determines  *)
(* both.                                                                   *)
(***************************************************************************)
EXTENDS Integers, Sequences, FiniteSets, TLC

VARIABLES
    (* hash chain: ChainManager's table, the event store, returned values *)
    hash_blocks,      \* rows of table hash_blocks, in id order
    clock,            \* datetime.utcnow(), as a logical clock
    store,            \* event store: event id -> event dict
    committed,        \* history: event id -> the dict a block was computed over
    tampers,          \* history: rows of hash_blocks rewritten outside add_block
    altered,          \* history: the <<row, column>> pairs rewritten outside add_block
    last_call,        \* the value returned (or the exception raised) by the last call
    (* sync packages *)
    package,          \* the extracted content of the package file
    pkg_edited,       \* history: the package was changed after export_sync_package wrote it
    importer_blocks,  \* rows of hash_blocks of the importing instance's ChainManager
    (* compute_merkle_root on its own *)
    m_hashes,         \* the argument
    m_root,           \* the returned value, NotCalled before the call
    (* parser registry *)
    _parsers,         \* ParserRegistry._parsers: the ids that have a parser
    _priority_order,  \* ParserRegistry._priority_order
    priority_of,      \* history: parser id -> the priority it was last registered with
    reg_count,        \* history: number of register calls
    reg_repeated,     \* history: some parser id was registered more than once
    detected,         \* the last detect_parser call: its argument and what it returned
    (* the CSVGenericParser instance held by the registry *)
    _header,          \* CSVGenericParser._header: {} is None, {h} is the list h
    _column_map,      \* CSVGenericParser._column_map: {} is None, {m} is the dict m
    header_file,      \* history: the file whose line set _header
    lines_read,       \* history: file -> number of its lines handed to parse
    csv_last,         \* the last parse call through the registry and what it returned
    (* _evaluate_condition on its own *)
    condition,        \* the condition string, as its space-separated tokens
    selection_results,\* selection name -> bool
    cond_value,       \* the returned value, NotEvaluated before the call
    (* rule reload and match on the event loop *)
    rules_dir,        \* the rules directory: does it exist, which rule files it holds
    heap,             \* the list objects self.rules has been bound to
    rules,            \* SigmaMatcher.rules: index in heap of the list it is bound to
    load_task,        \* the load_rules coroutine: where it is, files it still has to read
    match_task,       \* the match coroutine: where it is, its list iterator, rules evaluated
    loop_owner,       \* the coroutine the event loop is running
    last_complete,    \* history: self.rules as left by the last finished load_rules
    match_result      \* history: what the last finished match evaluated the event against

chain_vars == <<hash_blocks, clock, store, committed, tampers, altered, last_call>>
merkle_vars == <<m_hashes, m_root>>
sync_vars == <<package, pkg_edited, importer_blocks>>
registry_vars == <<_parsers, _priority_order, priority_of, reg_count, reg_repeated, detected>>
csv_vars == <<_header, _column_map, header_file, lines_read, csv_last>>
cond_vars == <<condition, selection_results, cond_value>>
reload_vars ==
    <<rules_dir, heap, rules, load_task, match_task, loop_owner, last_complete, match_result>>

(* Variables of the detection engine, the ingest path, the stores and the bus *)
VARIABLES
    (* DetectionEngine *)
    engine_settings, \* settings.detection: which components are enabled
    _initialized, \* DetectionEngine._initialized
    engine_components, \* the components initialize has created
    analyze_result \* the last analyze call: what it returned or that it raised

VARIABLES
    (* SyslogCollector *)
    _message_queue, \* SyslogCollector._message_queue: {} is None, {q} the queue with items q
    _stats, \* SyslogCollector._stats
    syslog_sent, \* history: number of messages that reached _process_message
    syslog_last \* the last _process_message call and the queue it found

VARIABLES
    (* FileWatcher and the files it watches *)
    fs, \* the watched directory: path -> does the file exist, its inode, its lines
    inode_seq, \* the last inode the file system has handed out
    line_seq, \* the last line written to a file
    _known_files, \* FileWatcher._known_files
    _file_positions, \* FileWatcher._file_positions, an offset counted in lines
    _file_inodes, \* FileWatcher._file_inodes
    watcher_running, \* FileWatcher._running
    watch_last \* the last _check_files: per path what it found and what it handed to on_new_lines

VARIABLES
    (* IngestionManager *)
    on_raw_event, \* IngestionManager.on_raw_event
    ingest_stats, \* IngestionManager._stats
    ingest_last \* the last frames handled and the events they gave

VARIABLES
    (* AnomalyDetector *)
    sklearn_available, \* whether scikit-learn can be imported
    model_file, \* what isolation_forest.pkl is on disk
    detector, \* the AnomalyDetector: {} before initialize
    cold_start, \* history: initialize left the detector untrained
    detect_count, \* history: number of detect calls
    detect_last \* the last detect or force_retrain call

VARIABLES
    (* AlertStore *)
    alerts, \* the alerts table: id -> status and acknowledging principal
    alert_calls, \* history: number of status requests
    alert_last \* the last status request, the row before and after it

VARIABLES
    (* ConnectionManager *)
    _connections, \* ConnectionManager._connections
    _subscribers, \* ConnectionManager._subscribers
    broadcast, \* the broadcast coroutine in progress
    broadcasts, \* history: number of broadcast calls
    broadcast_last \* how the last broadcast ended

VARIABLES
    (* EventStore *)
    event_rows, \* the events table
    persisted, \* history: source, id and content hash of each create, in order
    blocks_marked, \* history: number of mark_batch calls
    batch_last \* the last get_batch_for_hashing call and what it returned

VARIABLES
    (* application lifespan *)
    lifecycle, \* what runs: the manager, the collector, its listeners and clients, the database
    pending, \* frames queued, events unhashed, blocks committed
    shutdown_last \* history: the state the shutdown left

VARIABLES
    (* ThreatScorer *)
    scored_detection, \* the detection of the event under analysis: {} is none
    scoring_step \* how far analyze has taken the detection

VARIABLES
    (* IntegrityVerifier.verify_event_in_batch *)
    incl_args, \* the arguments of verify_event_in_batch
    incl_result \* what the call returned, or that it raised

VARIABLES
    (* ChainManager under concurrent add_block *)
    ledger_rows, \* the hash_blocks table of the shared ledger
    ledger_calls \* per thread: {} outside add_block, {block} between the read and the commit

VARIABLES
    (* FileWatcher on an appended file *)
    tail_content, \* the characters of the watched file
    tail_start, \* {} before the file is tracked, {n} the size it was first tracked at
    tail_position, \* FileWatcher._file_positions of the file
    tail_delivered, \* history: the lines given to on_new_lines, in order
    tail_last \* history: the last step, a write or a poll

VARIABLES
    (* BehavioralBaseline *)
    _learning_mode, \* BehavioralBaseline._learning_mode
    _events_processed, \* BehavioralBaseline._events_processed
    elapsed_days, \* (utcnow() - _start_time).days
    baselines_saved, \* history: number of times _save_baselines wrote the profiles
    update_last \* history: the last update call, whether it raised and whether it saved

engine_vars == <<engine_settings, _initialized, engine_components, analyze_result>>
syslog_vars == <<_message_queue, _stats, syslog_sent, syslog_last>>
watcher_vars == <<fs, inode_seq, line_seq, _known_files, _file_positions, _file_inodes, watcher_running, watch_last>>
ingest_vars == <<on_raw_event, ingest_stats, ingest_last>>
anomaly_vars == <<sklearn_available, model_file, detector, cold_start, detect_count, detect_last>>
alerts_vars == <<alerts, alert_calls, alert_last>>
bus_vars == <<_connections, _subscribers, broadcast, broadcasts, broadcast_last>>
store_vars == <<event_rows, persisted, blocks_marked, batch_last>>
shutdown_vars == <<lifecycle, pending, shutdown_last>>
scorer_vars == <<scored_detection, scoring_step>>
inclusion_vars == <<incl_args, incl_result>>
ledger_vars == <<ledger_rows, ledger_calls>>
tail_vars == <<tail_content, tail_start, tail_position, tail_delivered, tail_last>>
baseline_vars == <<_learning_mode, _events_processed, elapsed_days, baselines_saved, update_last>>
later_vars == <<engine_vars, syslog_vars, watcher_vars, ingest_vars, anomaly_vars, alerts_vars, bus_vars, store_vars, shutdown_vars, scorer_vars, inclusion_vars, ledger_vars, tail_vars, baseline_vars>>

\* what the actions of one subsystem leave alone
parser_vars == <<registry_vars, csv_vars>>
matcher_vars == <<cond_vars, reload_vars>>
not_chain_vars == <<sync_vars, merkle_vars, parser_vars, matcher_vars, later_vars>>
not_sync_vars == <<merkle_vars, parser_vars, matcher_vars, later_vars>>
not_merkle_vars == <<chain_vars, sync_vars, parser_vars, matcher_vars, later_vars>>
blockchain_vars == <<chain_vars, sync_vars, merkle_vars>>
not_registry_vars == <<blockchain_vars, csv_vars, matcher_vars, later_vars>>
not_csv_vars == <<blockchain_vars, registry_vars, matcher_vars, later_vars>>
not_cond_vars == <<blockchain_vars, parser_vars, reload_vars, later_vars>>
not_reload_vars == <<blockchain_vars, parser_vars, cond_vars, later_vars>>

early_vars == <<blockchain_vars, parser_vars, matcher_vars>>
vars == <<early_vars, later_vars>>
not_engine_vars == <<early_vars, syslog_vars, watcher_vars, ingest_vars, anomaly_vars, alerts_vars, bus_vars, store_vars, shutdown_vars, scorer_vars, inclusion_vars, ledger_vars, tail_vars, baseline_vars>>
not_syslog_vars == <<early_vars, engine_vars, watcher_vars, ingest_vars, anomaly_vars, alerts_vars, bus_vars, store_vars, shutdown_vars, scorer_vars, inclusion_vars, ledger_vars, tail_vars, baseline_vars>>
not_watcher_vars == <<early_vars, engine_vars, syslog_vars, ingest_vars, anomaly_vars, alerts_vars, bus_vars, store_vars, shutdown_vars, scorer_vars, inclusion_vars, ledger_vars, tail_vars, baseline_vars>>
not_ingest_vars == <<early_vars, engine_vars, syslog_vars, watcher_vars, anomaly_vars, alerts_vars, bus_vars, store_vars, shutdown_vars, scorer_vars, inclusion_vars, ledger_vars, tail_vars, baseline_vars>>
not_anomaly_vars == <<early_vars, engine_vars, syslog_vars, watcher_vars, ingest_vars, alerts_vars, bus_vars, store_vars, shutdown_vars, scorer_vars, inclusion_vars, ledger_vars, tail_vars, baseline_vars>>
not_alerts_vars == <<early_vars, engine_vars, syslog_vars, watcher_vars, ingest_vars, anomaly_vars, bus_vars, store_vars, shutdown_vars, scorer_vars, inclusion_vars, ledger_vars, tail_vars, baseline_vars>>
not_bus_vars == <<early_vars, engine_vars, syslog_vars, watcher_vars, ingest_vars, anomaly_vars, alerts_vars, store_vars, shutdown_vars, scorer_vars, inclusion_vars, ledger_vars, tail_vars, baseline_vars>>
not_store_vars == <<early_vars, engine_vars, syslog_vars, watcher_vars, ingest_vars, anomaly_vars, alerts_vars, bus_vars, shutdown_vars, scorer_vars, inclusion_vars, ledger_vars, tail_vars, baseline_vars>>
not_shutdown_vars == <<early_vars, engine_vars, syslog_vars, watcher_vars, ingest_vars, anomaly_vars, alerts_vars, bus_vars, store_vars, scorer_vars, inclusion_vars, ledger_vars, tail_vars, baseline_vars>>
not_scorer_vars == <<early_vars, engine_vars, syslog_vars, watcher_vars, ingest_vars, anomaly_vars, alerts_vars, bus_vars, store_vars, shutdown_vars, inclusion_vars, ledger_vars, tail_vars, baseline_vars>>
not_inclusion_vars == <<early_vars, engine_vars, syslog_vars, watcher_vars, ingest_vars, anomaly_vars, alerts_vars, bus_vars, store_vars, shutdown_vars, scorer_vars, ledger_vars, tail_vars, baseline_vars>>
not_ledger_vars == <<early_vars, engine_vars, syslog_vars, watcher_vars, ingest_vars, anomaly_vars, alerts_vars, bus_vars, store_vars, shutdown_vars, scorer_vars, inclusion_vars, tail_vars, baseline_vars>>
not_tail_vars == <<early_vars, engine_vars, syslog_vars, watcher_vars, ingest_vars, anomaly_vars, alerts_vars, bus_vars, store_vars, shutdown_vars, scorer_vars, inclusion_vars, ledger_vars, baseline_vars>>
not_baseline_vars == <<early_vars, engine_vars, syslog_vars, watcher_vars, ingest_vars, anomaly_vars, alerts_vars, bus_vars, store_vars, shutdown_vars, scorer_vars, inclusion_vars, ledger_vars, tail_vars>>

----------------------------------------------------------------------------
(* Bounds of the model *)

\* events in the event store
NumEvents == 5
\* rows the chain may grow to
MaxBlocks == 2
\* rows rewritten behind the chain manager's back
MaxTampers == 1
\* events changed in storage after they were hashed
MaxMutations == 1
\* leaves handed to compute_merkle_root
MaxLeaves == 6
\* register calls on one registry
MaxRegister == 2
\* priorities passed to register are 1..MaxPriority
MaxPriority == 3
\* lines read from one CSV file
MaxLines == 2
\* operands of a rule condition
MaxTerms == 3
\* "not" in front of one operand
MaxNots == 1
\* reloads of the rule directory
MaxReloads == 2
\* detections one match returns
MaxSigmaHits == 1
\* asyncio.Queue(maxsize=10000) of SyslogCollector.start, scaled down
QueueMaxsize == 2
\* syslog messages received
MaxMessages == 6
\* inodes the file system hands out
MaxInodes == 3
\* lines written to the watched files
MaxWritten == 3
\* frames handed to the ingestion manager
MaxFrames == 3
\* AnomalyDetector._min_training_samples = 1000, scaled down
_min_training_samples == 3
\* the 100 samples _train_model keeps, scaled down
RecentSamples == 1
\* detect calls
MaxDetects == 6
\* status requests on the alerts
MaxAlertCalls == 2
\* ticks a send_text is followed while it does not return
MaxWait == 2
\* broadcast calls
MaxBroadcasts == 2
\* events persisted
MaxStored == 2
\* batch_size of get_batch_for_hashing
MaxBatchSize == 2
\* events of the batch handed to verify_event_in_batch
MaxBatchEvents == 5
\* blocks committed or in flight on the shared ledger
MaxLedgerBlocks == 3
\* characters a watched file grows to
MaxBytes == 5
\* update calls on a baseline
MaxUpdates == 101
\* days a baseline runs
MaxDays == 8

----------------------------------------------------------------------------
(* Helpers on sequences *)

Min(a, b) == IF a <= b THEN a ELSE b

Range(s) == {s[i] : i \in 1..Len(s)}

Take(s, n) == SubSeq(s, 1, Min(n, Len(s)))

Last(s) == s[Len(s)]

RECURSIVE Concat(_)
Concat(ss) == IF ss = <<>> THEN <<>> ELSE Head(ss) \o Concat(Tail(ss))

SeqsUpTo(S, n) == UNION {[1..k -> S] : k \in 0..n}

\* str(n) for the small numbers the model prints
IntStr(n) ==
    CASE n = 0 -> "0" [] n = 1 -> "1" [] n = 2 -> "2" [] n = 3 -> "3"
      [] n = 4 -> "4" [] n = 5 -> "5" [] n = 6 -> "6" [] n = 7 -> "7"
      [] n = 8 -> "8" [] n = 9 -> "9" [] OTHER -> "many"

----------------------------------------------------------------------------
(* HashComputer *)

\* Python's None where a digest is expected
NoHash == <<>>

\* an exception leaving compute_merkle_root (list index out of range)
IndexError == <<"IndexError">>

hash_string(data) == <<"H(">> \o data \o <<")">>

\* Event dicts: a sequence of items [k, t, v] in insertion order; t is the
\* Python type of the value ("str", "int", "datetime", "none"), v its text.
KeyOrder == <<"id", "message", "timestamp">>

SortKeys(d) ==
    LET present == {i \in 1..Len(KeyOrder) : \E j \in 1..Len(d) : d[j].k = KeyOrder[i]}
        RECURSIVE Pick(_)
        Pick(S) == IF S = {} THEN <<>>
                   ELSE LET i == CHOOSE x \in S : \A y \in S : x <= y
                            j == CHOOSE x \in 1..Len(d) : d[x].k = KeyOrder[i]
                        IN  <<d[j]>> \o Pick(S \ {i})
    IN  Pick(present)

\* json.dumps of one value; default=str prints what JSON cannot encode
JsonValue(item) ==
    CASE item.t = "str"      -> <<"str", item.v>>
      [] item.t = "datetime" -> <<"str", item.v>>
      [] item.t = "int"      -> <<"num", item.v>>
      [] OTHER               -> <<"null">>

JsonDict(d, sort_keys) ==
    LET items == IF sort_keys THEN SortKeys(d) ELSE d
    IN  <<"{">> \o Concat([i \in 1..Len(items) |->
                    <<"key", items[i].k>> \o JsonValue(items[i])]) \o <<"}">>

hash_event(event_data) == hash_string(JsonDict(event_data, TRUE))

NextLevel(hashes) ==
    [j \in 1..(Len(hashes) \div 2) |-> hash_string(hashes[2 * j - 1] \o hashes[2 * j])]

\* the while loop: range(0, len, 2) reads hashes[i + 1], out of range when
\* a level has an odd number of entries
RECURSIVE MerkleLoop(_)
MerkleLoop(hashes) ==
    IF Len(hashes) <= 1 THEN hashes[1]
    ELSE IF Len(hashes) % 2 = 1 THEN IndexError
    ELSE MerkleLoop(NextLevel(hashes))

compute_merkle_root(hashes) ==
    IF hashes = <<>> THEN hash_string(<<>>)
    ELSE IF Len(hashes) = 1 THEN hashes[1]
    ELSE MerkleLoop(IF Len(hashes) % 2 = 1 THEN Append(hashes, Last(hashes))
                    ELSE hashes)

\* [raised, hash_value, merkle_root, event_count, previous_hash]
compute_batch_hash(events, previous_hash) ==
    LET event_hashes == [i \in 1..Len(events) |-> hash_event(events[i])]
        merkle_root == compute_merkle_root(event_hashes)
        chain_data == (IF previous_hash = NoHash THEN <<"genesis">> ELSE previous_hash)
                      \o <<":">> \o merkle_root \o <<":", IntStr(Len(events))>>
    IN  IF merkle_root = IndexError
        THEN [raised |-> TRUE, hash_value |-> NoHash, merkle_root |-> NoHash,
              event_count |-> Len(events), previous_hash |-> previous_hash]
        ELSE [raised |-> FALSE, hash_value |-> hash_string(chain_data),
              merkle_root |-> merkle_root, event_count |-> Len(events),
              previous_hash |-> previous_hash]

----------------------------------------------------------------------------
(* compute_merkle_root as a function of its argument *)

NotCalled == <<"NotCalled">>

Leaves == {hash_string(<<"event1">>), hash_string(<<"event2">>)}

MerkleInit ==
    /\ m_hashes \in SeqsUpTo(Leaves, MaxLeaves)
    /\ m_root = NotCalled

MerkleIdle ==
    /\ m_hashes = <<>>
    /\ m_root = NotCalled

CallMerkleRoot ==
    /\ m_root = NotCalled
    /\ m_root' = compute_merkle_root(m_hashes)
    /\ UNCHANGED <<m_hashes, not_merkle_vars>>

----------------------------------------------------------------------------
(* ChainManager *)

\* the event dicts of the model
EventDict(id, message) ==
    << [k |-> "id", t |-> "str", v |-> id], [k |-> "message", t |-> "str", v |-> message] >>

EventIds == 1..NumEvents

OriginalEvent(i) == EventDict(IntStr(i), "test")

TamperedEvent(i) == EventDict(IntStr(i), "changed")

\* a digest that no block of the chain has
ForgedHash == hash_string(<<"forged">>)

\* an Optional[int] argument: {} is None, {n} is n
NoneInt == {}

get_latest_block(rows) == rows[Len(rows)]

\* the bug of chaining to the latest row's previous_hash column
get_previous_hash_WrongColumn(rows) ==
    IF rows = <<>> THEN NoHash ELSE get_latest_block(rows).previous_hash

get_previous_hash(rows) ==
    IF rows = <<>> THEN NoHash ELSE get_latest_block(rows).block_hash

\* limit=100 of get_chain, 10000 of verify_chain and of the exporter
DefaultLimit == 100
VerifyLimit == 10000

get_chain(rows, start_block, end_block, limit) ==
    LET InRange(b) == /\ \A s \in start_block : b.id >= s
                      /\ \A e \in end_block : b.id <= e
    IN  Take(SelectSeq(rows, InRange), limit)

\* the bug of starting the comparison one row late (i > 1 for i > 0)
verify_chain_SkipsSecond(rows, start_block, end_block) ==
    LET blocks == rows
        bad == {i \in 3..Len(blocks) : blocks[i].previous_hash # blocks[i - 1].block_hash}
    IN  [valid |-> bad = {}, blocks_verified |-> Len(blocks),
         errors |-> SelectSeq([i \in 1..Len(blocks) |-> blocks[i].id],
                              LAMBDA id : \E i \in bad : blocks[i].id = id)]

\* [valid, blocks_verified, errors]; errors holds the block ids reported
verify_chain(rows, start_block, end_block) ==
    LET blocks == get_chain(rows, start_block, end_block, VerifyLimit)
        bad == {i \in 2..Len(blocks) : blocks[i].previous_hash # blocks[i - 1].block_hash}
        errors == SelectSeq([i \in 1..Len(blocks) |-> i], LAMBDA i : i \in bad)
    IN  IF blocks = <<>>
        THEN [valid |-> TRUE, blocks_verified |-> 0, errors |-> <<>>]
        ELSE [valid |-> Len(errors) = 0,
              blocks_verified |-> Len(blocks),
              errors |-> [i \in 1..Len(errors) |-> blocks[errors[i]].id]]

NewBlockId(rows) == IF rows = <<>> THEN 1 ELSE Last(rows).id + 1

\* the batches handed to add_block: the empty batch and every run s..e of
\* consecutive events of the store
Batches == {<<>>} \cup {[i \in 1..(e - s + 1) |-> s + i - 1] : s \in EventIds, e \in EventIds}

NoCall == [op |-> "none"]

ChainInit ==
    /\ hash_blocks = <<>>
    /\ clock = 0
    /\ store = [i \in EventIds |-> OriginalEvent(i)]
    /\ committed = [i \in EventIds |-> <<>>]
    /\ tampers = 0
    /\ altered = {}
    /\ last_call = NoCall

add_block(ids) ==
    LET events == [i \in 1..Len(ids) |-> store[ids[i]]]
        previous_hash == get_previous_hash(hash_blocks)
        hash_result == compute_batch_hash(events, previous_hash)
        block == [id |-> NewBlockId(hash_blocks),
                  block_hash |-> hash_result.hash_value,
                  previous_hash |-> previous_hash,
                  merkle_root |-> hash_result.merkle_root,
                  event_count |-> hash_result.event_count,
                  batch_start_id |-> IF ids = <<>> THEN NoneInt ELSE {ids[1]},
                  batch_end_id |-> IF ids = <<>> THEN NoneInt ELSE {Last(ids)},
                  timestamp |-> clock + 1]
    IN  /\ Len(hash_blocks) < MaxBlocks
        /\ IF hash_result.raised
           THEN /\ last_call' = [op |-> "add_block", raised |-> TRUE]
                /\ UNCHANGED <<hash_blocks, clock, committed>>
           ELSE /\ hash_blocks' = Append(hash_blocks, block)
                /\ clock' = clock + 1
                /\ committed' = [i \in EventIds |->
                                    IF i \in Range(ids) THEN store[i] ELSE committed[i]]
                /\ last_call' = [op |-> "add_block", raised |-> FALSE]
        /\ UNCHANGED <<store, tampers, altered, not_chain_vars>>

AddBlock == \E ids \in Batches : add_block(ids)

\* a row of the ledger file rewritten by hand
TamperBlock ==
    /\ tampers < MaxTampers
    /\ \E i \in 1..Len(hash_blocks), h \in {ForgedHash, NoHash} :
          \/ /\ h # hash_blocks[i].previous_hash
             /\ hash_blocks' = [hash_blocks EXCEPT ![i].previous_hash = h]
             /\ altered' = altered \cup {<<i, "previous_hash">>}
          \/ /\ h # NoHash
             /\ hash_blocks' = [hash_blocks EXCEPT ![i].block_hash = h]
             /\ altered' = altered \cup {<<i, "block_hash">>}
          \/ /\ h # NoHash
             /\ h # hash_blocks[i].merkle_root
             /\ hash_blocks' = [hash_blocks EXCEPT ![i].merkle_root = h]
             /\ altered' = altered \cup {<<i, "merkle_root">>}
          \/ /\ h = NoHash
             /\ hash_blocks' = [hash_blocks EXCEPT ![i].event_count = @ + 1]
             /\ altered' = altered \cup {<<i, "event_count">>}
    /\ tampers' = tampers + 1
    /\ last_call' = NoCall
    /\ UNCHANGED <<clock, store, committed, not_chain_vars>>

VerifyChain ==
    /\ last_call' = [op |-> "verify_chain",
                     result |-> verify_chain(hash_blocks, NoneInt, NoneInt)]
    /\ UNCHANGED <<hash_blocks, clock, store, committed, tampers, altered, not_chain_vars>>

\* an event of the store rewritten after persistence
MutateEvent ==
    /\ Cardinality({i \in EventIds : store[i] # OriginalEvent(i)}) < MaxMutations
    /\ \E i \in EventIds :
          /\ store[i] = OriginalEvent(i)
          /\ store' = [store EXCEPT ![i] = TamperedEvent(i)]
    /\ last_call' = NoCall
    /\ UNCHANGED <<hash_blocks, clock, committed, tampers, altered, not_chain_vars>>

----------------------------------------------------------------------------
(* IntegrityVerifier *)

\* get_stats builds a query from HashComputer.__class__, which is no column:
\* whether the call returns or raises is the ORM's choice
get_stats(rows) ==
    [total_blocks |-> Len(rows),
     latest_block_id |-> IF rows = <<>> THEN NoneInt ELSE {get_latest_block(rows).id},
     latest_block_hash |-> IF rows = <<>> THEN NoHash ELSE get_latest_block(rows).block_hash,
     latest_timestamp |-> IF rows = <<>> THEN NoneInt ELSE {get_latest_block(rows).timestamp}]

verify_chain_integrity(rows) == verify_chain(rows, NoneInt, NoneInt)

generate_integrity_report(rows, now) ==
    LET chain_result == verify_chain_integrity(rows)
        chain_stats == get_stats(rows)
    IN  [timestamp |-> now,
         chain_valid |-> chain_result.valid,
         blocks_verified |-> chain_result.blocks_verified,
         errors |-> chain_result.errors,
         statistics |-> chain_stats,
         status |-> IF chain_result.valid THEN "healthy" ELSE "compromised"]

GenerateIntegrityReport ==
    /\ \E stats_raises \in BOOLEAN :
          last_call' = IF stats_raises
                       THEN [op |-> "generate_integrity_report", raised |-> TRUE]
                       ELSE [op |-> "generate_integrity_report", raised |-> FALSE,
                             result |-> generate_integrity_report(hash_blocks, clock)]
    /\ UNCHANGED <<hash_blocks, clock, store, committed, tampers, altered, not_chain_vars>>

----------------------------------------------------------------------------
(* SyncExporter, SyncImporter *)

\* json.loads of one line of events.jsonl; <<"JSONDecodeError">> when the
\* line is no JSON object
JSONDecodeError == <<"JSONDecodeError">>

RECURSIVE ParseItems(_)
ParseItems(toks) ==
    IF toks[1] = "}" THEN <<>>
    ELSE IF toks[3] = "null"
         THEN <<[k |-> toks[2], t |-> "none", v |-> ""]>> \o ParseItems(SubSeq(toks, 4, Len(toks)))
         ELSE <<[k |-> toks[2], t |-> IF toks[3] = "str" THEN "str" ELSE "int", v |-> toks[4]]>>
              \o ParseItems(SubSeq(toks, 5, Len(toks)))

Parses(line) == line # <<>> /\ line[1] = "{"

json_loads(line) == ParseItems(Tail(line))

\* json.dumps(events, sort_keys=True, default=str)
JsonEvents(events) ==
    <<"[">> \o Concat([i \in 1..Len(events) |-> JsonDict(events[i], TRUE)]) \o <<"]">>

JsonHash(h) == IF h = NoHash THEN <<"null">> ELSE <<"str">> \o h

\* json.dumps(chain_data, sort_keys=True)
JsonChain(chain_data) ==
    <<"[">> \o Concat([i \in 1..Len(chain_data) |->
        <<"{", "key", "block_hash">> \o JsonHash(chain_data[i].block_hash)
        \o <<"key", "event_count", "num", IntStr(chain_data[i].event_count)>>
        \o <<"key", "id", "num", IntStr(chain_data[i].id)>>
        \o <<"key", "merkle_root">> \o JsonHash(chain_data[i].merkle_root)
        \o <<"key", "previous_hash">> \o JsonHash(chain_data[i].previous_hash)
        \o <<"key", "timestamp", "str", IntStr(chain_data[i].timestamp), "}">>])
    \o <<"]">>

\* the bug of hashing the events as they are written to the file, keys unsorted
ExportEventsHash_Unsorted(events) ==
    hash_string(<<"[">> \o Concat([i \in 1..Len(events) |-> JsonDict(events[i], FALSE)])
                \o <<"]">>)

\* the hash the exporter records for events.jsonl
ExportEventsHash(events) == hash_string(JsonEvents(events))

\* the hash the importer computes from the parsed lines of events.jsonl
VerifyEventsHash(events) == hash_string(JsonEvents(events))

ChainHash(chain_data) == hash_string(JsonChain(chain_data))

ExportLimit == 10000

AbsentFile == [exists |-> FALSE]

NoPackage == [present |-> FALSE]

\* the package directory that export_sync_package archives.  events.jsonl is
\* its lines as text; blockchain.json is the list it encodes: chain_data
\* holds only str, int and None under str keys, which json.dump and
\* json.load hand back unchanged.
export_sync_package(rows, events, start_block, end_block, include_events, include_chain) ==
    LET blocks == get_chain(rows, start_block, end_block, ExportLimit)
        chain_data == [i \in 1..Len(blocks) |->
                         [id |-> blocks[i].id,
                          block_hash |-> blocks[i].block_hash,
                          previous_hash |-> blocks[i].previous_hash,
                          merkle_root |-> blocks[i].merkle_root,
                          event_count |-> blocks[i].event_count,
                          timestamp |-> blocks[i].timestamp]]
        events_entry == IF include_events /\ events # <<>>
                        THEN <<[type |-> "events", file |-> "events.jsonl",
                                count |-> Len(events), hash |-> ExportEventsHash(events)]>>
                        ELSE <<>>
        chain_entry == IF include_chain
                       THEN <<[type |-> "blockchain", file |-> "blockchain.json",
                               count |-> Len(blocks),
                               first_block |-> IF blocks = <<>> THEN NoneInt ELSE {blocks[1].id},
                               last_block |-> IF blocks = <<>> THEN NoneInt ELSE {Last(blocks).id},
                               hash |-> ChainHash(chain_data)]>>
                       ELSE <<>>
    IN  [present |-> TRUE,
         manifest |-> [version |-> "1.0", contents |-> events_entry \o chain_entry],
         events_file |-> IF include_events /\ events # <<>>
                         THEN [exists |-> TRUE,
                               lines |-> [i \in 1..Len(events) |-> JsonDict(events[i], FALSE)]]
                         ELSE AbsentFile,
         chain_file |-> IF include_chain
                        THEN [exists |-> TRUE, parses |-> TRUE, data |-> chain_data]
                        ELSE AbsentFile]

FileOf(pkg, content) ==
    IF content.file = "events.jsonl" THEN pkg.events_file ELSE pkg.chain_file

\* what the loop of verify_package does with one manifest entry:
\* "missing", "raise", "mismatch" or "ok"
CheckContent(pkg, content) ==
    LET f == FileOf(pkg, content)
    IN  IF ~f.exists THEN "missing"
        ELSE IF content.type = "events"
        THEN IF f.lines = <<>> \/ \E i \in 1..Len(f.lines) : ~Parses(f.lines[i])
             THEN "raise"
             ELSE IF VerifyEventsHash([i \in 1..Len(f.lines) |-> json_loads(f.lines[i])]) # content.hash
                  THEN "mismatch" ELSE "ok"
        ELSE IF ~f.parses THEN "raise"
             ELSE IF ChainHash(f.data) # content.hash THEN "mismatch" ELSE "ok"

\* [raised] or [raised, valid, errors]
verify_package(pkg) ==
    IF ~pkg.present THEN [raised |-> FALSE, valid |-> FALSE, errors |-> <<"Package not found">>]
    ELSE LET contents == pkg.manifest.contents
             checks == [i \in 1..Len(contents) |-> CheckContent(pkg, contents[i])]
             firstRaise == {i \in 1..Len(checks) : checks[i] = "raise"}
             errors == SelectSeq(checks, LAMBDA c : c \in {"missing", "mismatch"})
         IN  IF firstRaise # {} THEN [raised |-> TRUE]
             ELSE [raised |-> FALSE, valid |-> errors = <<>>, errors |-> errors]

\* [raised] or [raised, success, blocks_imported, errors]
import_blockchain(pkg, verify_continuity) ==
    LET verification == verify_package(pkg)
    IN  IF verification.raised THEN [raised |-> TRUE]
        ELSE IF ~verification.valid
        THEN [raised |-> FALSE, success |-> FALSE, blocks_imported |-> 0,
              errors |-> verification.errors]
        ELSE IF ~pkg.chain_file.exists
        THEN [raised |-> FALSE, success |-> FALSE, blocks_imported |-> 0,
              errors |-> <<"No blockchain data in package">>]
        ELSE IF ~pkg.chain_file.parses THEN [raised |-> TRUE]
        ELSE LET imported_chain == pkg.chain_file.data
             IN  IF verify_continuity /\ \E i \in 2..Len(imported_chain) :
                        imported_chain[i].previous_hash # imported_chain[i - 1].block_hash
                 THEN [raised |-> FALSE, success |-> FALSE, blocks_imported |-> 0,
                       errors |-> <<"Chain broken">>]
                 ELSE [raised |-> FALSE, success |-> TRUE,
                       blocks_imported |-> Len(imported_chain), errors |-> <<>>]

\* the event lists handed to the exporter: none, one event, and two events
\* the first of which has its keys out of order, a datetime, an int and a None
MixedEvent ==
    << [k |-> "timestamp", t |-> "datetime", v |-> "2024-12-31 10:00:00"],
       [k |-> "message", t |-> "none", v |-> ""],
       [k |-> "id", t |-> "int", v |-> "2"] >>

ExportLists == {<<>>, <<OriginalEvent(1)>>, <<MixedEvent, OriginalEvent(1)>>}

\* the batches add_block gets while packages are exported
SyncBatches == {<<>>, <<1>>, [i \in EventIds |-> i]}

SyncInit ==
    /\ package = NoPackage
    /\ pkg_edited = FALSE
    /\ importer_blocks = <<>>

SyncAddBlock ==
    /\ ~package.present
    /\ \E ids \in SyncBatches : add_block(ids)

ExportSyncPackage ==
    /\ ~package.present
    /\ \E events \in ExportLists, start_block \in {NoneInt, {2}}, end_block \in {NoneInt, {1}},
         include_events \in BOOLEAN, include_chain \in BOOLEAN :
          /\ start_block = NoneInt \/ end_block = NoneInt
          /\ package' = export_sync_package(hash_blocks, events, start_block, end_block,
                                            include_events, include_chain)
          /\ last_call' = [op |-> "export_sync_package", events |-> events,
                           include_events |-> include_events,
                           include_chain |-> include_chain]
    /\ UNCHANGED <<hash_blocks, clock, store, committed, tampers, altered, pkg_edited,
                 importer_blocks, not_sync_vars>>

\* the package changed between export and import: a file removed, cut short
\* or turned into something that is no JSON, re-serialised, or given other
\* content
EditPackage ==
    /\ package.present
    /\ \/ /\ package.events_file.exists
          /\ \E f \in {AbsentFile,
                       [exists |-> TRUE, lines |-> <<>>],
                       [exists |-> TRUE, lines |-> << <<"garbage">> >>],
                       [exists |-> TRUE, lines |-> <<JsonDict(TamperedEvent(1), FALSE)>>],
                       [exists |-> TRUE,
                        lines |-> [i \in 1..Len(package.events_file.lines) |->
                                     IF Parses(package.events_file.lines[i])
                                     THEN JsonDict(json_loads(package.events_file.lines[i]), TRUE)
                                     ELSE package.events_file.lines[i]]]} :
                /\ f # package.events_file
                /\ package' = [package EXCEPT !.events_file = f]
       \/ /\ package.chain_file.exists
          /\ \E f \in {AbsentFile,
                       [exists |-> TRUE, parses |-> FALSE, data |-> <<>>],
                       [exists |-> TRUE, parses |-> TRUE, data |-> <<>>]} :
                /\ f # package.chain_file
                /\ package' = [package EXCEPT !.chain_file = f]
       \/ /\ package.chain_file.exists
          /\ package.chain_file.parses
          /\ package.chain_file.data # <<>>
          /\ \E h \in {ForgedHash, NoHash}, i \in 1..Len(package.chain_file.data) :
                /\ h # package.chain_file.data[i].previous_hash
                /\ package' = [package EXCEPT !.chain_file.data[i].previous_hash = h]
    /\ pkg_edited' = TRUE
    /\ UNCHANGED importer_blocks
    /\ last_call' = NoCall
    /\ UNCHANGED <<hash_blocks, clock, store, committed, tampers, altered, not_sync_vars>>

VerifyPackage ==
    /\ package.present
    /\ last_call' = [op |-> "verify_package", result |-> verify_package(package)]
    /\ UNCHANGED <<hash_blocks, clock, store, committed, tampers, altered, sync_vars, not_sync_vars>>

\* import_blockchain reads the package and returns; self.chain is not used
ImportBlockchain ==
    /\ package.present
    /\ last_call' = [op |-> "import_blockchain", result |-> import_blockchain(package, TRUE)]
    /\ UNCHANGED <<hash_blocks, clock, store, committed, tampers, altered, sync_vars, not_sync_vars>>

----------------------------------------------------------------------------
(* Parser registry: backend/parsers/parser_registry.py *)

\* parser_id of the parsers _register_default_parsers registers
ParserIds == {"linux_syslog", "json_generic", "csv_generic", "windows_event", "firewall"}

\* detect_parser found no parser; parse was given no parser_id
NoParser == "None"

\* A raw log line is the outcome of the tests the parsers' can_parse make on
\* its text.  A line that starts with "{" is neither "<NNN>..." nor an
\* RFC 3164 line.
RawLogs ==
    {r \in [syslog : BOOLEAN, json : BOOLEAN, columns : BOOLEAN,
            windows : BOOLEAN, firewall : BOOLEAN] : ~(r.syslog /\ r.json)}

\* <parser>.can_parse(raw_log)
can_parse(parser_id, raw_log) ==
    CASE parser_id = "linux_syslog" -> raw_log.syslog
      [] parser_id = "json_generic" -> raw_log.json
      [] parser_id = "csv_generic" -> raw_log.columns
      [] parser_id = "windows_event" -> raw_log.windows
      [] parser_id = "firewall" -> raw_log.firewall

\* list.insert(i, x), i counted from 1
InsertAt(s, i, x) == SubSeq(s, 1, i - 1) \o <<x>> \o SubSeq(s, i, Len(s))

\* ParserRegistry()
EmptyRegistry == [_parsers |-> {}, _priority_order |-> <<>>]

\* ParserRegistry.register: the new id goes in front of the first id of
\* _priority_order that has a parser, whatever the priority; it is appended
\* when there is none.
register(registry, parser_id, priority) ==
    LET ps == registry._parsers \cup {parser_id}
        order == registry._priority_order
        known == {i \in 1..Len(order) : order[i] \in ps}
    IN  [_parsers |-> ps,
         _priority_order |->
            IF known = {} THEN Append(order, parser_id)
            ELSE InsertAt(order, CHOOSE i \in known : \A j \in known : i <= j, parser_id)]

\* ParserRegistry.unregister
unregister(registry, parser_id) ==
    IF parser_id \in registry._parsers
    THEN [_parsers |-> registry._parsers \ {parser_id},
          _priority_order |-> SelectSeq(registry._priority_order, LAMBDA p : p # parser_id)]
    ELSE registry

\* ParserRegistry.detect_parser: the first id of _priority_order whose parser accepts
detect_parser(registry, raw_log) ==
    LET order == registry._priority_order
        hits == {i \in 1..Len(order) : order[i] \in registry._parsers /\ can_parse(order[i], raw_log)}
    IN  IF hits = {} THEN NoParser ELSE order[CHOOSE i \in hits : \A j \in hits : i <= j]

\* the registrations of _register_default_parsers, in its order
DefaultParsers ==
    << <<"linux_syslog", 10>>, <<"json_generic", 50>>, <<"csv_generic", 60>>,
       <<"windows_event", 20>>, <<"firewall", 30>> >>

RECURSIVE RegisterAll(_, _)
RegisterAll(registry, regs) ==
    IF regs = <<>> THEN registry
    ELSE RegisterAll(register(registry, Head(regs)[1], Head(regs)[2]), Tail(regs))

\* _register_default_parsers
_register_default_parsers(registry) == RegisterAll(registry, DefaultParsers)

Priorities == 1..MaxPriority

NoDetect == [op |-> "none"]

\* the registry object
Registry == [_parsers |-> _parsers, _priority_order |-> _priority_order]

\* ParserRegistry(): nothing registered
RegistryInit ==
    /\ _parsers = {}
    /\ _priority_order = <<>>
    /\ priority_of = [p \in {} |-> 0]
    /\ reg_count = 0
    /\ reg_repeated = FALSE
    /\ detected = NoDetect

\* get_parser_registry(): a new registry with the default parsers
RegistryDefault ==
    /\ _parsers = _register_default_parsers(EmptyRegistry)._parsers
    /\ _priority_order = _register_default_parsers(EmptyRegistry)._priority_order
    /\ priority_of = [p \in ParserIds |->
                        LET i == CHOOSE i \in 1..Len(DefaultParsers) : DefaultParsers[i][1] = p
                        IN  DefaultParsers[i][2]]
    /\ reg_count = Len(DefaultParsers)
    /\ reg_repeated = FALSE
    /\ detected = NoDetect

Register ==
    \E parser_id \in ParserIds, priority \in Priorities :
        /\ reg_count < MaxRegister
        /\ _parsers' = register(Registry, parser_id, priority)._parsers
        /\ _priority_order' = register(Registry, parser_id, priority)._priority_order
        /\ priority_of' = [p \in DOMAIN priority_of \cup {parser_id} |->
                              IF p = parser_id THEN priority ELSE priority_of[p]]
        /\ reg_count' = reg_count + 1
        /\ reg_repeated' = (reg_repeated \/ parser_id \in DOMAIN priority_of)
        /\ detected' = NoDetect
        /\ UNCHANGED not_registry_vars

Unregister ==
    \E parser_id \in ParserIds :
        /\ parser_id \in _parsers
        /\ _parsers' = unregister(Registry, parser_id)._parsers
        /\ _priority_order' = unregister(Registry, parser_id)._priority_order
        /\ detected' = NoDetect
        /\ UNCHANGED <<priority_of, reg_count, reg_repeated>>
        /\ UNCHANGED not_registry_vars

DetectParser ==
    \E raw_log \in RawLogs :
        /\ detected' = [op |-> "detect_parser", raw_log |-> raw_log,
                        parser |-> detect_parser(Registry, raw_log)]
        /\ UNCHANGED <<_parsers, _priority_order, priority_of, reg_count, reg_repeated>>
        /\ UNCHANGED not_registry_vars

----------------------------------------------------------------------------
(* CSV parser: backend/parsers/formats/csv_generic.py.  A line is the list  *)
(* of its columns, as csv.reader returns it; the blank line is <<>>.        *)

CsvFiles == {"a.csv", "b.csv"}

\* lines the files are made of
CsvLines ==
    { <<"Timestamp", "User">>, <<"host", "action", "user">>,
      <<"2024-01-01", "alice">>, <<"srv1", "login", "bob">>, <<>> }

\* col.lower().strip()
Lower(col) ==
    CASE col = "Timestamp" -> "timestamp"
      [] col = "User" -> "user"
      [] OTHER -> col

\* header_keywords of _looks_like_header
header_keywords ==
    {"timestamp", "time", "date", "host", "message", "user", "source", "dest",
     "ip", "port", "event", "action", "level"}

\* the words of header_keywords that occur in a (lower case) column of CsvLines
KeywordsIn(col) ==
    CASE col = "timestamp" -> {"timestamp", "time"}
      [] col = "user" -> {"user"}
      [] col = "host" -> {"host"}
      [] col = "action" -> {"action"}
      [] OTHER -> {}

\* CSVGenericParser._looks_like_header
_looks_like_header(row) ==
    \E i \in 1..Len(row) : KeywordsIn(Lower(row[i])) \cap header_keywords # {}

\* CSVGenericParser.COLUMN_MAPPINGS, in the order of the dict
COLUMN_MAPPINGS ==
    << <<"timestamp", <<"timestamp", "time", "datetime", "date", "eventtime">> >>,
       <<"message", <<"message", "msg", "log", "description", "event">> >>,
       <<"host_name", <<"host", "hostname", "server", "machine", "computer">> >>,
       <<"source_ip", <<"source_ip", "sourceip", "src_ip", "srcip", "client_ip", "clientip">> >>,
       <<"destination_ip", <<"dest_ip", "destip", "dst_ip", "dstip", "destination_ip">> >>,
       <<"source_port", <<"source_port", "src_port", "srcport">> >>,
       <<"destination_port", <<"dest_port", "dst_port", "dstport">> >>,
       <<"user_name", <<"user", "username", "user_name", "account">> >>,
       <<"action", <<"action", "event_type", "eventtype", "operation">> >>,
       <<"severity", <<"severity", "level", "priority">> >>,
       <<"process_name", <<"process", "process_name", "application", "app">> >> >>

\* CSVGenericParser._build_column_map: field name -> the first of its
\* possible columns that the header has
_build_column_map(header) ==
    LET Cols(k) == COLUMN_MAPPINGS[k][2]
        Found(k) == {j \in 1..Len(Cols(k)) : Cols(k)[j] \in Range(header)}
        Fields == {k \in 1..Len(COLUMN_MAPPINGS) : Found(k) # {}}
    IN  [field \in {COLUMN_MAPPINGS[k][1] : k \in Fields} |->
            LET k == CHOOSE k \in Fields : COLUMN_MAPPINGS[k][1] = field
            IN  Cols(k)[CHOOSE j \in Found(k) : \A l \in Found(k) : j <= l]]

\* f"col{i}"
ColName(i) == CASE i = 0 -> "col0" [] i = 1 -> "col1" [] i = 2 -> "col2" [] OTHER -> "colN"

\* [f"col{i}" for i in range(n)]
NumericHeader(n) == [i \in 1..n |-> ColName(i - 1)]

\* the row padded with "" or cut to the length of the header
PadOrTruncate(row, n) == [i \in 1..n |-> IF i <= Len(row) THEN row[i] ELSE ""]

\* dict(zip(header, row)): a later column of the same name wins
ZipDict(header, row) ==
    [col \in Range(header) |->
        row[CHOOSE i \in 1..Len(header) :
                /\ header[i] = col
                /\ \A j \in 1..Len(header) : header[j] = col => j <= i]]

\* CSVGenericParser._get_mapped_value: {} is None
_get_mapped_value(column_map, data, field_name) ==
    IF field_name \in DOMAIN column_map /\ column_map[field_name] \in DOMAIN data
                                       /\ data[column_map[field_name]] # ""
    THEN {data[column_map[field_name]]}
    ELSE {}

\* the ParsedEvent built from a row: the fields read from mapped columns and
\* event.extra; timestamp, ports and message are computed from the same dict
ParsedEvent(header, column_map, row) ==
    LET data == ZipDict(header, PadOrTruncate(row, Len(header)))
        known_cols == UNION {Range(COLUMN_MAPPINGS[k][2]) : k \in 1..Len(COLUMN_MAPPINGS)}
        mapped_cols == IF DOMAIN column_map = {} THEN {} ELSE known_cols \cap DOMAIN data
    IN  [data |-> data,
         host_name |-> _get_mapped_value(column_map, data, "host_name"),
         user_name |-> _get_mapped_value(column_map, data, "user_name"),
         event_action |-> _get_mapped_value(column_map, data, "action"),
         extra |-> {<<k, data[k]>> : k \in {c \in DOMAIN data \ mapped_cols : data[c] # ""}},
         raw_log |-> row,
         parser_id |-> "csv_generic"]

\* CSVGenericParser.parse on the instance state (header, column_map):
\* the new instance state and the returned event, {} for None
parse(header, column_map, row) ==
    IF row = <<>>
    THEN [_header |-> header, _column_map |-> column_map, event |-> {}]
    ELSE IF header = {} /\ _looks_like_header(row)
    THEN LET h == [i \in 1..Len(row) |-> Lower(row[i])]
         IN  [_header |-> {h}, _column_map |-> {_build_column_map(h)}, event |-> {}]
    ELSE LET h == IF header = {} THEN NumericHeader(Len(row))
                  ELSE CHOOSE x \in header : TRUE
             m == IF header = {} THEN _build_column_map(h)
                  ELSE CHOOSE x \in column_map : TRUE
         IN  [_header |-> {h}, _column_map |-> {m}, event |-> {ParsedEvent(h, m, row)}]

\* the tests of can_parse on a line of a CSV file: of the lines of CsvLines
\* only those of two columns and more pass one, CSVGenericParser's
RawOf(row) ==
    [syslog |-> FALSE, json |-> FALSE, columns |-> Len(row) >= 2,
     windows |-> FALSE, firewall |-> FALSE]

\* ParserRegistry.parse: the parser that is handed the line
parse_with(registry, row, parser_id) ==
    IF parser_id # NoParser
    THEN IF parser_id \in registry._parsers THEN parser_id ELSE NoParser
    ELSE detect_parser(registry, RawOf(row))

NoFile == "None"

NoParse == [op |-> "none"]

\* CSVGenericParser(): the class attributes _header = None, _column_map = None
CsvInit ==
    /\ _header = {}
    /\ _column_map = {}
    /\ header_file = NoFile
    /\ lines_read = [f \in CsvFiles |-> 0]
    /\ csv_last = NoParse

\* The next line of file f goes through registry.parse, with or without
\* parser_id; the registry holds one CSVGenericParser for every file.
ParseLine ==
    \E f \in CsvFiles, row \in CsvLines, parser_id \in {NoParser, "csv_generic"} :
        LET target == parse_with(Registry, row, parser_id)
            r == IF target = "csv_generic" THEN parse(_header, _column_map, row)
                 ELSE [_header |-> _header, _column_map |-> _column_map, event |-> {}]
            learned == IF _header = {} /\ r._header # {} THEN f ELSE header_file
        IN  /\ lines_read[f] < MaxLines
            /\ _header' = r._header
            /\ _column_map' = r._column_map
            /\ header_file' = learned
            /\ lines_read' = [lines_read EXCEPT ![f] = @ + 1]
            /\ csv_last' = [op |-> "parse", file |-> f, row |-> row,
                            first_line |-> (lines_read[f] = 0),
                            held_before |-> (_header # {}),
                            header_from |-> learned,
                            event |-> r.event]
            /\ UNCHANGED registry_vars
            /\ UNCHANGED not_csv_vars

----------------------------------------------------------------------------
(* Rule conditions: SigmaMatcher._evaluate_condition.  A condition string   *)
(* is the sequence of its tokens, which single spaces separate.             *)

\* selection names of a rule
SelectionNames == {"a", "b"}

\* an operand: a selection name behind 0..MaxNots "not"
Operands == {[i \in 1..n |-> "not"] \o <<name>> : n \in 0..MaxNots, name \in SelectionNames}

RECURSIVE ConditionsOf(_)
\* the conditions of k operands joined by "and" and "or", without parentheses
ConditionsOf(k) ==
    IF k = 1 THEN Operands
    ELSE {c \o <<op>> \o t : c \in ConditionsOf(k - 1), op \in {"and", "or"}, t \in Operands}

Conditions == UNION {ConditionsOf(k) : k \in 1..MaxTerms}

\* f" {op} " in condition: the word with a token on either side
HasInfix(cond, op) == \E i \in 2..(Len(cond) - 1) : cond[i] = op

RECURSIVE Split(_, _)
\* condition.split(f" {op} "), when the separator occurs: the occurrences
\* are taken from the left and do not overlap
Split(cond, op) ==
    IF ~HasInfix(cond, op) THEN <<cond>>
    ELSE LET i == CHOOSE i \in 2..(Len(cond) - 1) :
                    cond[i] = op /\ \A j \in 2..(i - 1) : cond[j] # op
         IN  <<SubSeq(cond, 1, i - 1)>> \o Split(SubSeq(cond, i + 1, Len(cond)), op)

RECURSIVE _evaluate_condition_AndFirst(_, _)
\* _evaluate_condition with the two splits in the other order
_evaluate_condition_AndFirst(cond, results) ==
    IF Len(cond) = 1 /\ cond[1] \in DOMAIN results THEN results[cond[1]]
    ELSE IF Len(cond) >= 2 /\ cond[1] = "not"
    THEN ~_evaluate_condition_AndFirst(Tail(cond), results)
    ELSE IF HasInfix(cond, "and")
    THEN \A k \in 1..Len(Split(cond, "and")) :
            _evaluate_condition_AndFirst(Split(cond, "and")[k], results)
    ELSE IF HasInfix(cond, "or")
    THEN \E k \in 1..Len(Split(cond, "or")) :
            _evaluate_condition_AndFirst(Split(cond, "or")[k], results)
    ELSE FALSE

RECURSIVE _evaluate_condition(_, _)
\* SigmaMatcher._evaluate_condition.  The branches "all of " and "1 of "
\* are for conditions that start with these words; no selection is named
\* "all" or "1" here, and what is left falls to
\* selection_results.get(condition, False).
_evaluate_condition(cond, results) ==
    IF Len(cond) = 1 /\ cond[1] \in DOMAIN results THEN results[cond[1]]
    ELSE IF Len(cond) >= 2 /\ cond[1] = "not"
    THEN ~_evaluate_condition(Tail(cond), results)
    ELSE IF HasInfix(cond, "or")
    THEN \E k \in 1..Len(Split(cond, "or")) :
            _evaluate_condition(Split(cond, "or")[k], results)
    ELSE IF HasInfix(cond, "and")
    THEN \A k \in 1..Len(Split(cond, "and")) :
            _evaluate_condition(Split(cond, "and")[k], results)
    ELSE FALSE

\* a condition and the results of the rule's selections, before the call
CondInit ==
    /\ condition \in Conditions
    /\ selection_results \in [SelectionNames -> BOOLEAN]
    /\ cond_value = {}

\* no condition under evaluation
CondIdle ==
    /\ condition = <<"a">>
    /\ selection_results = [n \in SelectionNames |-> FALSE]
    /\ cond_value = {}

EvaluateCondition ==
    /\ cond_value = {}
    /\ cond_value' = {_evaluate_condition(condition, selection_results)}
    /\ UNCHANGED <<condition, selection_results>>
    /\ UNCHANGED not_cond_vars

----------------------------------------------------------------------------
(* Rule reload and match: SigmaMatcher.load_rules and SigmaMatcher.match,   *)
(* two coroutines on the one event loop of the backend.                     *)

\* files of the rules directory, in the order load_rules lists them
RuleFileNames == <<"r1.yml", "r2.yaml">>

\* what a rule file holds: a rule, a document without "detection", no YAML
FileKinds == {"absent", "rule", "no_detection", "not_yaml"}

\* SigmaMatcher._load_rule_file: {} when it returns None or raises, which
\* load_rules treats alike
_load_rule_file(dir, name) == IF dir.files[name] = "rule" THEN {[_file |-> name]} ELSE {}

\* yaml_files: rglob("*.yml") and then rglob("*.yaml")
yaml_files(dir) == SelectSeq(RuleFileNames, LAMBDA name : dir.files[name] # "absent")

\* A coroutine runs when the loop runs no other: load_rules and match have
\* no await, so each keeps the loop from its first line to its return.
CanRun_Preemptive(task) == TRUE

CanRun(task) == loop_owner \in {"none", task}

\* SigmaMatcher(rules_path): self.rules = []
ReloadInit ==
    /\ rules_dir \in [exists : BOOLEAN, files : [Range(RuleFileNames) -> {"absent"}]]
    /\ heap = << <<>> >>
    /\ rules = 1
    /\ load_task = [pc |-> "idle", todo |-> <<>>, count |-> 0]
    /\ match_task = [pc |-> "idle"]
    /\ loop_owner = "none"
    /\ last_complete = <<>>
    /\ match_result = [op |-> "none"]

\* no matcher at work
ReloadIdle ==
    /\ rules_dir = [exists |-> FALSE, files |-> [n \in Range(RuleFileNames) |-> "absent"]]
    /\ heap = << <<>> >>
    /\ rules = 1
    /\ load_task = [pc |-> "idle", todo |-> <<>>, count |-> 0]
    /\ match_task = [pc |-> "idle"]
    /\ loop_owner = "none"
    /\ last_complete = <<>>
    /\ match_result = [op |-> "none"]

\* rule files are written, changed and removed while no load reads them
EditRules ==
    \E name \in Range(RuleFileNames), kind \in FileKinds :
        /\ load_task.pc # "appending"
        /\ rules_dir.files[name] # kind
        /\ rules_dir' = [exists |-> (rules_dir.exists \/ kind # "absent"),
                         files |-> [rules_dir.files EXCEPT ![name] = kind]]
        /\ UNCHANGED <<heap, rules, load_task, match_task, loop_owner, last_complete, match_result>>
        /\ UNCHANGED not_reload_vars

\* POST /reload-rules: the route awaits load_rules()
ScheduleReload ==
    /\ load_task.pc = "idle"
    /\ load_task.count < MaxReloads
    /\ load_task' = [pc |-> "scheduled", todo |-> <<>>, count |-> load_task.count + 1]
    /\ match_task' = IF match_task.pc = "idle" THEN match_task
                     ELSE [match_task EXCEPT !.overlapped = TRUE]
    /\ UNCHANGED <<rules_dir, heap, rules, loop_owner, last_complete, match_result>>
    /\ UNCHANGED not_reload_vars

\* DetectionEngine.analyze awaits match(event)
ScheduleMatch ==
    /\ match_task.pc = "idle"
    /\ match_task' = [pc |-> "scheduled", list |-> 0, idx |-> 0, seen |-> <<>>,
                      before |-> last_complete, overlapped |-> (load_task.pc # "idle")]
    /\ match_result' = [op |-> "none"]
    /\ UNCHANGED <<rules_dir, heap, rules, load_task, loop_owner, last_complete>>
    /\ UNCHANGED not_reload_vars

\* load_rules, lines 26-34: self.rules = [], then the early return or the file list
LoadStart ==
    /\ load_task.pc = "scheduled"
    /\ CanRun("load")
    /\ heap' = Append(heap, <<>>)
    /\ rules' = Len(heap) + 1
    /\ IF rules_dir.exists
       THEN /\ load_task' = [load_task EXCEPT !.pc = "appending", !.todo = yaml_files(rules_dir)]
            /\ loop_owner' = "load"
            /\ UNCHANGED <<rules_dir, last_complete>>
       ELSE /\ rules_dir' = [rules_dir EXCEPT !.exists = TRUE]
            /\ load_task' = [load_task EXCEPT !.pc = "idle", !.todo = <<>>]
            /\ loop_owner' = IF loop_owner = "load" THEN "none" ELSE loop_owner
            /\ last_complete' = <<>>
    /\ UNCHANGED <<match_task, match_result>>
    /\ UNCHANGED not_reload_vars

\* load_rules, lines 36-42: one turn of the loop over yaml_files
LoadAppend ==
    /\ load_task.pc = "appending"
    /\ load_task.todo # <<>>
    /\ CanRun("load")
    /\ LET rule == _load_rule_file(rules_dir, Head(load_task.todo))
       IN  heap' = IF rule = {} THEN heap
                   ELSE [heap EXCEPT ![rules] = Append(@, CHOOSE r \in rule : TRUE)]
    /\ load_task' = [load_task EXCEPT !.todo = Tail(@)]
    /\ loop_owner' = "load"
    /\ UNCHANGED <<rules_dir, rules, match_task, last_complete, match_result>>
    /\ UNCHANGED not_reload_vars

\* load_rules, line 44: the loop is over and the coroutine returns
LoadFinish ==
    /\ load_task.pc = "appending"
    /\ load_task.todo = <<>>
    /\ CanRun("load")
    /\ load_task' = [load_task EXCEPT !.pc = "idle"]
    /\ loop_owner' = IF loop_owner = "load" THEN "none" ELSE loop_owner
    /\ last_complete' = heap[rules]
    /\ UNCHANGED <<rules_dir, heap, rules, match_task, match_result>>
    /\ UNCHANGED not_reload_vars

\* match, lines 66-69: the for loop takes an iterator on the list self.rules is bound to
MatchStart ==
    /\ match_task.pc = "scheduled"
    /\ CanRun("match")
    /\ match_task' = [match_task EXCEPT !.pc = "iterating", !.list = rules, !.idx = 1]
    /\ loop_owner' = "match"
    /\ UNCHANGED <<rules_dir, heap, rules, load_task, last_complete, match_result>>
    /\ UNCHANGED not_reload_vars

\* match, lines 69-75: the iterator yields the next rule of its list, as the list is now
MatchNext ==
    /\ match_task.pc = "iterating"
    /\ match_task.idx <= Len(heap[match_task.list])
    /\ CanRun("match")
    /\ match_task' = [match_task EXCEPT !.seen = Append(@, heap[match_task.list][match_task.idx]),
                                        !.idx = @ + 1]
    /\ loop_owner' = "match"
    /\ UNCHANGED <<rules_dir, heap, rules, load_task, last_complete, match_result>>
    /\ UNCHANGED not_reload_vars

\* match, line 77: the iterator is exhausted and the coroutine returns
MatchFinish ==
    /\ match_task.pc = "iterating"
    /\ match_task.idx > Len(heap[match_task.list])
    /\ CanRun("match")
    /\ match_result' = [op |-> "match", seen |-> match_task.seen,
                        before |-> match_task.before, after |-> last_complete,
                        overlapped |-> match_task.overlapped]
    /\ match_task' = [pc |-> "idle"]
    /\ loop_owner' = IF loop_owner = "match" THEN "none" ELSE loop_owner
    /\ UNCHANGED <<rules_dir, heap, rules, load_task, last_complete>>
    /\ UNCHANGED not_reload_vars

----------------------------------------------------------------------------
(* Detection engine: backend/detection/engine.py.  analyze calls its        *)
(* sub-steps one after the other, with no try around any of them.           *)

\* the sub-steps of analyze, in the order of the calls
SubSteps == {"sigma", "anomaly", "mitre", "scorer"}

\* DetectionEngine.initialize: the components it creates
initialize(settings) == {c \in {"sigma", "mitre", "anomaly"} : settings[c]} \cup {"scorer"}

\* a Detection, as far as analyze changes it
Detection(detection_type) == [detection_type |-> detection_type, enriched |-> FALSE, scored |-> FALSE]

\* one sub-step of analyze on the state st of the call: nothing when an
\* earlier sub-step raised, when the component is None, or when the step
\* is a loop over no detection; the exception when the sub-step raises
RunStep(st, step, components, failing, called, after) ==
    IF st.raised \/ step \notin components \/ ~called THEN st
    ELSE IF step \in failing THEN [st EXCEPT !.raised = TRUE, !.ran = @ \cup {step}]
    ELSE [raised |-> FALSE, ran |-> st.ran \cup {step}, detections |-> after]

\* DetectionEngine.analyze after initialize.  sigma_hits is the number of
\* detections match returns, anomaly_hit says detect returns one, failing
\* are the sub-steps that raise when they are called.
analyze(components, sigma_hits, anomaly_hit, failing) ==
    LET s0 == [raised |-> FALSE, ran |-> {}, detections |-> <<>>]
        s1 == RunStep(s0, "sigma", components, failing, TRUE,
                      [i \in 1..sigma_hits |-> Detection("sigma")])
        s2 == RunStep(s1, "anomaly", components, failing, TRUE,
                      IF anomaly_hit THEN Append(s1.detections, Detection("ml"))
                      ELSE s1.detections)
        s3 == RunStep(s2, "mitre", components, failing, s2.detections # <<>>,
                      [i \in 1..Len(s2.detections) |-> [s2.detections[i] EXCEPT !.enriched = TRUE]])
        s4 == RunStep(s3, "scorer", components, failing, s3.detections # <<>>,
                      [i \in 1..Len(s3.detections) |-> [s3.detections[i] EXCEPT !.scored = TRUE]])
    IN  s4

NoAnalyze == [op |-> "none"]

\* DetectionEngine(): nothing created, under any settings
EngineStart ==
    /\ engine_settings \in [{"sigma", "mitre", "anomaly"} -> BOOLEAN]
    /\ _initialized = FALSE
    /\ engine_components = {}
    /\ analyze_result = NoAnalyze

\* no engine at work
EngineInit ==
    /\ engine_settings = [c \in {"sigma", "mitre", "anomaly"} |-> TRUE]
    /\ _initialized = FALSE
    /\ engine_components = {}
    /\ analyze_result = NoAnalyze

InitializeEngine ==
    /\ ~_initialized
    /\ _initialized' = TRUE
    /\ engine_components' = initialize(engine_settings)
    /\ analyze_result' = NoAnalyze
    /\ UNCHANGED engine_settings
    /\ UNCHANGED not_engine_vars

Analyze ==
    \E sigma_hits \in 0..MaxSigmaHits, anomaly_hit \in BOOLEAN, failing \in SUBSET SubSteps :
        LET components == IF _initialized THEN engine_components
                          ELSE initialize(engine_settings)
        IN  /\ _initialized' = TRUE
            /\ engine_components' = components
            /\ analyze_result' =
                  [op |-> "analyze", failing |-> failing,
                   result |-> analyze(components, sigma_hits, anomaly_hit, failing)]
            /\ UNCHANGED engine_settings
            /\ UNCHANGED not_engine_vars

----------------------------------------------------------------------------
(* Syslog collector: backend/ingestion/syslog_collector.py.  A message is   *)
(* the number of its arrival.                                               *)

\* asyncio.Queue.full()
full(queue) == Len(queue) >= QueueMaxsize

\* SyslogCollector._process_message on the queue and the counters: the
\* message is counted, handed to on_message and put in the queue when the
\* queue exists and is not full; an exception of on_message is counted and
\* ends the call
_process_message(queue, stats, msg, on_message_raises) ==
    IF on_message_raises
    THEN [queue |-> queue,
          stats |-> [stats EXCEPT !.received = @ + 1, !.errors = @ + 1]]
    ELSE [queue |-> IF queue # {} /\ ~full(CHOOSE q \in queue : TRUE)
                    THEN {Append(CHOOSE q \in queue : TRUE, msg)}
                    ELSE queue,
          stats |-> [stats EXCEPT !.received = @ + 1]]

NoMessage == [op |-> "none"]

\* SyslogCollector.__init__
SyslogInit ==
    /\ _message_queue = {}
    /\ _stats = [received |-> 0, errors |-> 0]
    /\ syslog_sent = 0
    /\ syslog_last = NoMessage

\* SyslogCollector.start
StartCollector ==
    /\ _message_queue = {}
    /\ _message_queue' = {<<>>}
    /\ syslog_last' = NoMessage
    /\ UNCHANGED <<_stats, syslog_sent>>
    /\ UNCHANGED not_syslog_vars

\* a datagram or a line of a TCP connection arrives
ProcessMessage ==
    \E on_message_raises \in BOOLEAN :
        LET msg == syslog_sent + 1
            r == _process_message(_message_queue, _stats, msg, on_message_raises)
        IN  /\ syslog_sent < MaxMessages
            /\ _message_queue # {}
            /\ syslog_sent' = msg
            /\ _message_queue' = r.queue
            /\ _stats' = r.stats
            /\ syslog_last' = [op |-> "_process_message", msg |-> msg,
                               raised |-> on_message_raises,
                               queue_before |-> CHOOSE q \in _message_queue : TRUE,
                               stats_before |-> _stats]
            /\ UNCHANGED not_syslog_vars

\* SyslogCollector.get_messages: the messages queued are taken, oldest first
GetMessages ==
    /\ _message_queue \notin {{}, {<<>>}}
    /\ _message_queue' = {<<>>}
    /\ syslog_last' = NoMessage
    /\ UNCHANGED <<_stats, syslog_sent>>
    /\ UNCHANGED not_syslog_vars

----------------------------------------------------------------------------
(* File watcher: backend/ingestion/file_watcher.py.  Every line of a file   *)
(* has the same length, which is the unit of st_size and of the offsets; a  *)
(* line is the number it was written under.                                 *)

WatchedPaths == {"app.log", "audit.log"}

NoSuchFile == [exists |-> FALSE, inode |-> 0, lines |-> <<>>]

\* FileWatcher._add_file on a file that exists: a path not yet known is
\* recorded with its size as offset (start at end) and its inode
_add_file(w, path, file) ==
    IF path \in w.known THEN w
    ELSE [known |-> w.known \cup {path},
          positions |-> [p \in w.known \cup {path} |->
                            IF p = path THEN Len(file.lines) ELSE w.positions[p]],
          inodes |-> [p \in w.known \cup {path} |->
                            IF p = path THEN file.inode ELSE w.inodes[p]]]

RECURSIVE ScanPaths(_, _, _)
\* FileWatcher._scan_directory: _add_file for every file of the directory
ScanPaths(w, files, paths) ==
    IF paths = {} THEN w
    ELSE LET p == CHOOSE x \in paths : TRUE
         IN  ScanPaths(IF files[p].exists THEN _add_file(w, p, files[p]) ELSE w,
                       files, paths \ {p})

\* FileWatcher._read_new_lines: the content between the offsets start and end
_read_new_lines(file, start, end) == SubSeq(file.lines, start + 1, end)

\* the loop body of _check_files where a rotation leaves the reading offset as it was
CheckFile_StaleOffset(file, position, inode, callback_raises) ==
    LET current_size == Len(file.lines)
        rotated == file.inode # inode \/ current_size < position
        previous_pos == position
        new_lines == IF current_size > previous_pos
                     THEN _read_new_lines(file, previous_pos, current_size) ELSE <<>>
    IN  [position |-> IF current_size > previous_pos /\ ~(new_lines # <<>> /\ callback_raises)
                      THEN current_size
                      ELSE IF rotated THEN 0 ELSE position,
         inode |-> IF rotated THEN file.inode ELSE inode,
         delivered |-> new_lines]

\* the loop body of _check_files for a known path whose file exists: a
\* changed inode or a size below the offset is a rotation and moves the
\* offset to 0; the content from the offset to the size goes to
\* on_new_lines; the offset moves to the size unless the callback raised
CheckFile(file, position, inode, callback_raises) ==
    LET current_size == Len(file.lines)
        rotated == file.inode # inode \/ current_size < position
        previous_pos == IF rotated THEN 0 ELSE position
        new_lines == IF current_size > previous_pos
                     THEN _read_new_lines(file, previous_pos, current_size) ELSE <<>>
    IN  [position |-> IF current_size > previous_pos /\ ~(new_lines # <<>> /\ callback_raises)
                      THEN current_size
                      ELSE previous_pos,
         inode |-> IF rotated THEN file.inode ELSE inode,
         delivered |-> new_lines]

\* FileWatcher._check_files: the scan for new files, the loop over the known
\* files, the removal of the files that are gone
_check_files(w, files, callback_raises) ==
    LET scanned == ScanPaths(w, files, WatchedPaths)
        kept == {p \in scanned.known : files[p].exists}
        Check(p) == CheckFile(files[p], scanned.positions[p], scanned.inodes[p],
                              p \in callback_raises)
    IN  [known |-> kept,
         positions |-> [p \in kept |-> Check(p).position],
         inodes |-> [p \in kept |-> Check(p).inode],
         delivered |-> [p \in kept |-> Check(p).delivered]]

\* the watcher object
Watcher == [known |-> _known_files, positions |-> _file_positions, inodes |-> _file_inodes]

NoPoll == [op |-> "none"]

\* FileWatcher(watch_paths) over a directory without files
WatcherInit ==
    /\ fs = [p \in WatchedPaths |-> NoSuchFile]
    /\ inode_seq = 0
    /\ line_seq = 0
    /\ _known_files = {}
    /\ _file_positions = [p \in {} |-> 0]
    /\ _file_inodes = [p \in {} |-> 0]
    /\ watcher_running = FALSE
    /\ watch_last = NoPoll

\* FileWatcher.start: the initial scan
StartWatcher ==
    /\ ~watcher_running
    /\ watcher_running' = TRUE
    /\ LET w == ScanPaths(Watcher, fs, WatchedPaths)
       IN  /\ _known_files' = w.known
           /\ _file_positions' = w.positions
           /\ _file_inodes' = w.inodes
    /\ watch_last' = NoPoll
    /\ UNCHANGED <<fs, inode_seq, line_seq>>
    /\ UNCHANGED not_watcher_vars

\* one turn of _watch_loop
CheckFiles ==
    \E callback_raises \in SUBSET WatchedPaths :
        LET w == _check_files(Watcher, fs, callback_raises)
        IN  /\ watcher_running
            /\ _known_files' = w.known
            /\ _file_positions' = w.positions
            /\ _file_inodes' = w.inodes
            /\ watch_last' =
                  [op |-> "_check_files",
                   report |-> [p \in WatchedPaths |->
                      IF p \in _known_files /\ fs[p].exists
                      THEN [tracked |-> TRUE,
                            inode_changed |-> (fs[p].inode # _file_inodes[p]),
                            shrunk |-> (Len(fs[p].lines) < _file_positions[p]),
                            offset_before |-> _file_positions[p],
                            lines |-> fs[p].lines,
                            delivered |-> w.delivered[p]]
                      ELSE [tracked |-> FALSE]]]
            /\ UNCHANGED <<fs, inode_seq, line_seq, watcher_running>>
            /\ UNCHANGED not_watcher_vars

\* a writer appends a line, to a new file when the path has none
WriteLine ==
    \E p \in WatchedPaths :
        /\ line_seq < MaxWritten
        /\ fs[p].exists \/ inode_seq < MaxInodes
        /\ line_seq' = line_seq + 1
        /\ inode_seq' = IF fs[p].exists THEN inode_seq ELSE inode_seq + 1
        /\ fs' = [fs EXCEPT ![p] =
                    [exists |-> TRUE,
                     inode |-> IF fs[p].exists THEN fs[p].inode ELSE inode_seq + 1,
                     lines |-> Append(fs[p].lines, line_seq + 1)]]
        /\ UNCHANGED <<_known_files, _file_positions, _file_inodes, watcher_running, watch_last>>
        /\ UNCHANGED not_watcher_vars

\* logrotate "create": the file is renamed away and a new, empty file takes the path
RotateFile ==
    \E p \in WatchedPaths :
        /\ fs[p].exists
        /\ inode_seq < MaxInodes
        /\ inode_seq' = inode_seq + 1
        /\ fs' = [fs EXCEPT ![p] = [exists |-> TRUE, inode |-> inode_seq + 1, lines |-> <<>>]]
        /\ UNCHANGED <<line_seq, _known_files, _file_positions, _file_inodes,
                       watcher_running, watch_last>>
        /\ UNCHANGED not_watcher_vars

\* logrotate "copytruncate": the file keeps its inode and loses its content
TruncateFile ==
    \E p \in WatchedPaths :
        /\ fs[p].exists
        /\ fs[p].lines # <<>>
        /\ fs' = [fs EXCEPT ![p].lines = <<>>]
        /\ UNCHANGED <<inode_seq, line_seq, _known_files, _file_positions, _file_inodes,
                       watcher_running, watch_last>>
        /\ UNCHANGED not_watcher_vars

\* the file is removed
DeleteFile ==
    \E p \in WatchedPaths :
        /\ fs[p].exists
        /\ fs' = [fs EXCEPT ![p] = NoSuchFile]
        /\ UNCHANGED <<inode_seq, line_seq, _known_files, _file_positions, _file_inodes,
                       watcher_running, watch_last>>
        /\ UNCHANGED not_watcher_vars

----------------------------------------------------------------------------
(* Ingest path: backend/ingestion/ingestion_manager.py feeding              *)
(* ParserRegistry.parse.  A frame is a raw log line of RawLogs, never a     *)
(* blank one; a return value of None is the empty set.                      *)

\* the values of IngestionManager.on_raw_event: not given, or the registry's parse
RawEventCallbacks == {"None", "parse"}

\* <parser>.parse(raw_log, source_type): the event of the line, or None when
\* the format parser rejects the line
FormatParse(parser_id, raw_log, source_type, rejected) ==
    IF rejected THEN {}
    ELSE {[kind |-> "event", raw |-> raw_log, parser_id |-> parser_id,
           source_type |-> source_type]}

\* ParserRegistry.parse without parser_id: the parser is detected; None when
\* there is none
ParserRegistry_parse(registry, raw_log, source_type, rejected) ==
    LET parser == detect_parser(registry, raw_log)
    IN  IF parser # NoParser THEN FormatParse(parser, raw_log, source_type, rejected)
        ELSE {}

\* ParserRegistry.parse_batch: the events of the lines that gave one
RECURSIVE parse_batch(_, _, _, _)
parse_batch(registry, raw_logs, source_type, rejected) ==
    IF raw_logs = <<>> THEN <<>>
    ELSE LET event == ParserRegistry_parse(registry, Head(raw_logs), source_type, rejected)
         IN  (IF event # {} THEN <<CHOOSE e \in event : TRUE>> ELSE <<>>)
             \o parse_batch(registry, Tail(raw_logs), source_type, rejected)

\* IngestionManager._handle_syslog: the message is counted and handed to
\* on_raw_event when there is one
_handle_syslog(stats, callback, registry, frame, rejected) ==
    [stats |-> [stats EXCEPT !.syslog_events = @ + 1, !.total_events = @ + 1],
     handed |-> IF callback # "None" THEN <<frame>> ELSE <<>>,
     events |-> IF callback # "None"
                THEN parse_batch(registry, <<frame>>, "syslog", rejected)
                ELSE <<>>]

\* IngestionManager._handle_file_lines: the lines are counted and each one
\* handed to on_raw_event when there is one
_handle_file_lines(stats, callback, registry, lines, rejected) ==
    [stats |-> [stats EXCEPT !.file_events = @ + Len(lines), !.total_events = @ + Len(lines)],
     handed |-> IF callback # "None" THEN lines ELSE <<>>,
     events |-> IF callback # "None"
                THEN parse_batch(registry, lines, "file", rejected)
                ELSE <<>>]

NoFrame == [op |-> "none"]

\* IngestionManager.__init__ without on_raw_event
IngestInit ==
    /\ on_raw_event = "None"
    /\ ingest_stats = [total_events |-> 0, syslog_events |-> 0, file_events |-> 0]
    /\ ingest_last = NoFrame

\* IngestionManager.__init__
IngestStart ==
    /\ on_raw_event \in RawEventCallbacks
    /\ ingest_stats = [total_events |-> 0, syslog_events |-> 0, file_events |-> 0]
    /\ ingest_last = NoFrame

\* the syslog collector hands a message to _handle_syslog
HandleSyslog ==
    \E frame \in RawLogs, rejected \in BOOLEAN :
        LET r == _handle_syslog(ingest_stats, on_raw_event,
                                _register_default_parsers(EmptyRegistry), frame, rejected)
        IN  /\ ingest_stats.total_events < MaxFrames
            /\ ingest_stats' = r.stats
            /\ ingest_last' = [op |-> "_handle_syslog", frames |-> <<frame>>,
                               handed |-> r.handed, events |-> r.events]
            /\ UNCHANGED on_raw_event
            /\ UNCHANGED not_ingest_vars

\* the file watcher hands the new lines of a file to _handle_file_lines
HandleFileLines ==
    \E f1 \in RawLogs, f2 \in RawLogs, rejected \in BOOLEAN :
        LET lines == <<f1, f2>>
            r == _handle_file_lines(ingest_stats, on_raw_event,
                                    _register_default_parsers(EmptyRegistry), lines, rejected)
        IN  /\ ingest_stats.total_events + 2 <= MaxFrames
            /\ ingest_stats' = r.stats
            /\ ingest_last' = [op |-> "_handle_file_lines", frames |-> lines,
                               handed |-> r.handed, events |-> r.events]
            /\ UNCHANGED on_raw_event
            /\ UNCHANGED not_ingest_vars
----------------------------------------------------------------------------
(* Anomaly detector: backend/detection/anomaly/detector.py.  The event      *)
(* buffer is the number of samples in it; the features of an event count    *)
(* only through the score the model gives them, in hundredths.              *)

\* AnomalyDetector.threshold, the default of __init__, in hundredths
threshold == 85

\* the values _calculate_anomaly_score gives with a model, in hundredths
Scores == {0, 85, 90, 95}

\* what isolation_forest.pkl is on disk
ModelFiles == {"none", "good", "corrupt"}

\* what _save_model's open and pickle.dump do
SaveOutcomes == {"ok", "open_fails", "dump_fails"}

\* AnomalyDetector.__init__
NewDetector == [_is_trained |-> FALSE, model |-> {}, _event_buffer |-> 0]

\* AnomalyDetector._load_model; a file that does not unpickle raises
_load_model(d, file) ==
    IF file = "good"
    THEN [d |-> [d EXCEPT !.model = {"IsolationForest"}, !._is_trained = TRUE], raised |-> FALSE]
    ELSE [d |-> d, raised |-> TRUE]

\* AnomalyDetector.initialize: the model is loaded when its file exists; a
\* failure to load is logged
AnomalyDetector_initialize(d, file) ==
    IF file # "none" THEN _load_model(d, file).d ELSE d

\* AnomalyDetector._save_model
_save_model(d, file, save) ==
    IF d.model = {} THEN [file |-> file, raised |-> FALSE]
    ELSE CASE save = "ok" -> [file |-> "good", raised |-> FALSE]
           [] save = "open_fails" -> [file |-> file, raised |-> TRUE]
           [] save = "dump_fails" -> [file |-> "corrupt", raised |-> TRUE]

\* AnomalyDetector._train_model: nothing with too few samples or without
\* scikit-learn; else the model is fitted, the detector trained, the model
\* saved and the buffer cut to its most recent samples
_train_model(d, file, sklearn, save) ==
    IF d._event_buffer < _min_training_samples \/ ~sklearn
    THEN [d |-> d, file |-> file, raised |-> FALSE]
    ELSE LET fitted == [d EXCEPT !.model = {"IsolationForest"}, !._is_trained = TRUE]
             saved == _save_model(fitted, file, save)
         IN  IF saved.raised
             THEN [d |-> fitted, file |-> saved.file, raised |-> TRUE]
             ELSE [d |-> [fitted EXCEPT !._event_buffer =
                                    IF @ > RecentSamples THEN RecentSamples ELSE @],
                   file |-> saved.file, raised |-> FALSE]

\* AnomalyDetector._calculate_anomaly_score
_calculate_anomaly_score(d, score) == IF d.model = {} THEN 0 ELSE score

\* AnomalyDetector._score_to_severity
_score_to_severity(score) ==
    IF score >= 95 THEN "critical"
    ELSE IF score >= 90 THEN "high"
    ELSE IF score >= 85 THEN "medium"
    ELSE "low"

\* detect that trains one sample late
detect_TrainLate(d, file, sklearn, save, score) ==
    LET buffered == [d EXCEPT !._event_buffer = @ + 1]
        t == IF ~buffered._is_trained /\ buffered._event_buffer > _min_training_samples
             THEN _train_model(buffered, file, sklearn, save)
             ELSE [d |-> buffered, file |-> file, raised |-> FALSE]
        s == _calculate_anomaly_score(t.d, score)
    IN  IF t.raised \/ ~t.d._is_trained
        THEN [d |-> t.d, file |-> t.file, raised |-> t.raised, scored |-> FALSE, result |-> {}]
        ELSE [d |-> t.d, file |-> t.file, raised |-> FALSE, scored |-> TRUE,
              result |-> IF s >= threshold
                         THEN {[rule_id |-> "ml_anomaly", detection_type |-> "ml",
                                severity |-> _score_to_severity(s), anomaly_score |-> s]}
                         ELSE {}]

\* AnomalyDetector.detect: the sample is buffered; an untrained detector
\* with enough samples trains; an untrained detector returns None; a
\* trained one scores the event and returns a Detection at the threshold
detect(d, file, sklearn, save, score) ==
    LET buffered == [d EXCEPT !._event_buffer = @ + 1]
        t == IF ~buffered._is_trained /\ buffered._event_buffer >= _min_training_samples
             THEN _train_model(buffered, file, sklearn, save)
             ELSE [d |-> buffered, file |-> file, raised |-> FALSE]
        s == _calculate_anomaly_score(t.d, score)
    IN  IF t.raised \/ ~t.d._is_trained
        THEN [d |-> t.d, file |-> t.file, raised |-> t.raised, scored |-> FALSE, result |-> {}]
        ELSE [d |-> t.d, file |-> t.file, raised |-> FALSE, scored |-> TRUE,
              result |-> IF s >= threshold
                         THEN {[rule_id |-> "ml_anomaly", detection_type |-> "ml",
                                severity |-> _score_to_severity(s), anomaly_score |-> s]}
                         ELSE {}]

\* AnomalyDetector.force_retrain
force_retrain(d, file, sklearn, save) ==
    LET reset == [d EXCEPT !._is_trained = FALSE, !.model = {}]
    IN  IF reset._event_buffer >= _min_training_samples
        THEN _train_model(reset, file, sklearn, save)
        ELSE [d |-> reset, file |-> file, raised |-> FALSE]

NoDetectCall == [op |-> "none"]

\* no detector yet
AnomalyInit ==
    /\ sklearn_available = TRUE
    /\ model_file = "none"
    /\ detector = {}
    /\ cold_start = FALSE
    /\ detect_count = 0
    /\ detect_last = NoDetectCall

\* the process starts: scikit-learn is installed or not, the models
\* directory holds a model file or not
AnomalyStart ==
    /\ sklearn_available \in BOOLEAN
    /\ model_file \in ModelFiles
    /\ detector = {}
    /\ cold_start = FALSE
    /\ detect_count = 0
    /\ detect_last = NoDetectCall

\* DetectionEngine.initialize: AnomalyDetector(...) and its initialize
InitializeDetector ==
    LET d == AnomalyDetector_initialize(NewDetector, model_file)
    IN  /\ detector = {}
        /\ detector' = {d}
        /\ cold_start' = ~d._is_trained
        /\ detect_last' = NoDetectCall
        /\ UNCHANGED <<sklearn_available, model_file, detect_count>>
        /\ UNCHANGED not_anomaly_vars

\* DetectionEngine.analyze hands an event to detect
Detect ==
    \E save \in SaveOutcomes, score \in Scores :
        LET d == CHOOSE x \in detector : TRUE
            r == detect(d, model_file, sklearn_available, save, score)
        IN  /\ detector # {}
            /\ detect_count < MaxDetects
            /\ detect_count' = detect_count + 1
            /\ detector' = {r.d}
            /\ model_file' = r.file
            /\ detect_last' = [op |-> "detect", before |-> d, after |-> r.d,
                               raised |-> r.raised, scored |-> r.scored,
                               score |-> score, result |-> r.result]
            /\ UNCHANGED <<sklearn_available, cold_start>>
            /\ UNCHANGED not_anomaly_vars

\* force_retrain is called
ForceRetrain ==
    \E save \in SaveOutcomes :
        LET d == CHOOSE x \in detector : TRUE
            r == force_retrain(d, model_file, sklearn_available, save)
        IN  /\ detector # {}
            /\ detector' = {r.d}
            /\ model_file' = r.file
            /\ detect_last' = [op |-> "force_retrain", before |-> d, after |-> r.d,
                               raised |-> r.raised]
            /\ UNCHANGED <<sklearn_available, cold_start, detect_count>>
            /\ UNCHANGED not_anomaly_vars

\* the process ends; the model file stays on disk
StopDetector ==
    /\ detector # {}
    /\ detector' = {}
    /\ cold_start' = FALSE
    /\ detect_last' = NoDetectCall
    /\ UNCHANGED <<sklearn_available, model_file, detect_count>>
    /\ UNCHANGED not_anomaly_vars
----------------------------------------------------------------------------
(* Alert status: backend/storage/alert_store.py behind the routes of        *)
(* backend/api/routes/alerts.py.  The table of alerts is a function from    *)
(* the ids of the rows to their status and acknowledging principal.         *)

AlertIds == {"a1", "a2"}

\* valid_statuses of update_alert_status
valid_statuses == {"new", "acknowledged", "investigating", "resolved", "false_positive"}

\* the status strings a request can carry: the valid ones and any other
RequestStatuses == valid_statuses \cup {"reopened"}

Principals == {"alice", "bob"}

\* AlertStore.create: status is alert_data.get("status", "new")
AlertStore_create(table, alert_id, status) ==
    [a \in DOMAIN table \cup {alert_id} |->
        IF a = alert_id THEN [status |-> status, acknowledged_by |-> {}] ELSE table[a]]

\* AlertStore.get_by_id: the row or None
get_by_id(table, alert_id) ==
    IF alert_id \in DOMAIN table THEN {table[alert_id]} ELSE {}

\* AlertStore.acknowledge: UPDATE ... SET status, acknowledged_by WHERE id
acknowledge(table, alert_id, acknowledged_by, status) ==
    [a \in DOMAIN table |->
        IF a = alert_id
        THEN [status |-> status, acknowledged_by |-> {acknowledged_by}]
        ELSE table[a]]

\* AlertStore.update_status: UPDATE ... SET status WHERE id
update_status(table, alert_id, status) ==
    [a \in DOMAIN table |->
        IF a = alert_id THEN [table[a] EXCEPT !.status = status] ELSE table[a]]

\* POST /{alert_id}/acknowledge: the status of the request goes to the store
acknowledge_alert(table, alert_id, acknowledged_by, status) ==
    LET after == acknowledge(table, alert_id, acknowledged_by, status)
    IN  [alerts |-> after,
         code |-> IF get_by_id(after, alert_id) = {} THEN 404 ELSE 200]

\* PATCH /{alert_id}/status: a status outside valid_statuses is refused
update_alert_status(table, alert_id, status) ==
    IF status \notin valid_statuses THEN [alerts |-> table, code |-> 400]
    ELSE LET after == update_status(table, alert_id, status)
         IN  [alerts |-> after,
              code |-> IF get_by_id(after, alert_id) = {} THEN 404 ELSE 200]

NoAlertCall == [op |-> "none"]

\* an empty alerts table
AlertsInit ==
    /\ alerts = [a \in {} |-> 0]
    /\ alert_calls = 0
    /\ alert_last = NoAlertCall

\* a detection is stored as an alert
CreateAlert ==
    \E alert_id \in AlertIds \ DOMAIN alerts :
        /\ alerts' = AlertStore_create(alerts, alert_id, "new")
        /\ alert_last' = NoAlertCall
        /\ UNCHANGED alert_calls
        /\ UNCHANGED not_alerts_vars

AcknowledgeAlert ==
    \E alert_id \in AlertIds, acknowledged_by \in Principals, status \in RequestStatuses :
        LET r == acknowledge_alert(alerts, alert_id, acknowledged_by, status)
        IN  /\ alert_calls < MaxAlertCalls
            /\ alert_calls' = alert_calls + 1
            /\ alerts' = r.alerts
            /\ alert_last' = [op |-> "acknowledge", alert_id |-> alert_id,
                              before |-> get_by_id(alerts, alert_id),
                              after |-> get_by_id(r.alerts, alert_id), code |-> r.code]
            /\ UNCHANGED not_alerts_vars

UpdateAlertStatus ==
    \E alert_id \in AlertIds, status \in RequestStatuses :
        LET r == update_alert_status(alerts, alert_id, status)
        IN  /\ alert_calls < MaxAlertCalls
            /\ alert_calls' = alert_calls + 1
            /\ alerts' = r.alerts
            /\ alert_last' = [op |-> "update_status", alert_id |-> alert_id,
                              before |-> get_by_id(alerts, alert_id),
                              after |-> get_by_id(r.alerts, alert_id), code |-> r.code]
            /\ UNCHANGED not_alerts_vars
----------------------------------------------------------------------------
(* Subscription bus: ConnectionManager of backend/api/websocket.py.  A      *)
(* broadcast is a coroutine that suspends in each send_text; time passes    *)
(* in ticks while it is suspended.                                          *)

WebSockets == {"ws1", "ws2"}

\* the keys of ConnectionManager._subscribers
Channels == {"events", "alerts", "all"}

\* ConnectionManager.connect
connect(connections, subscribers, websocket, channel) ==
    [connections |-> connections \cup {websocket},
     subscribers |-> IF channel \in DOMAIN subscribers
                     THEN [subscribers EXCEPT ![channel] = @ \cup {websocket}]
                     ELSE subscribers]

\* ConnectionManager.disconnect
disconnect(connections, subscribers, websocket) ==
    [connections |-> connections \ {websocket},
     subscribers |-> [c \in DOMAIN subscribers |-> subscribers[c] \ {websocket}]]

RECURSIVE DisconnectAll(_, _, _)
\* the loop over disconnected at the end of broadcast
DisconnectAll(connections, subscribers, disconnected) ==
    IF disconnected = {} THEN [connections |-> connections, subscribers |-> subscribers]
    ELSE LET websocket == CHOOSE w \in disconnected : TRUE
             r == disconnect(connections, subscribers, websocket)
         IN  DisconnectAll(r.connections, r.subscribers, disconnected \ {websocket})

\* the targets of broadcast: the set _connections itself for channel "all",
\* else a new set, the union of the channel's subscribers and those of "all"
Targets(connections, subscribers, channel) ==
    IF channel = "all" THEN connections
    ELSE subscribers[channel] \cup subscribers["all"]

NoBroadcast == [pc |-> "idle"]

\* what the for loop of a broadcast has yet to visit: the set it iterates
\* is _connections itself for channel "all"
Remaining ==
    (IF broadcast.channel = "all" THEN _connections ELSE broadcast.targets) \ broadcast.visited

\* a set that changed size under the iteration makes the next step of the
\* for loop raise RuntimeError
SetChanged ==
    /\ broadcast.channel = "all"
    /\ Cardinality(_connections) # Cardinality(broadcast.targets)

\* ConnectionManager.__init__
BusInit ==
    /\ _connections = {}
    /\ _subscribers = [c \in Channels |-> {}]
    /\ broadcast = NoBroadcast
    /\ broadcasts = 0
    /\ broadcast_last = [op |-> "none"]

\* websocket_endpoint: a client connects; another task runs only while no
\* broadcast is between two awaits
Connect ==
    \E websocket \in WebSockets \ _connections, channel \in Channels :
        LET r == connect(_connections, _subscribers, websocket, channel)
        IN  /\ broadcast.pc # "loop"
            /\ _connections' = r.connections
            /\ _subscribers' = r.subscribers
            /\ UNCHANGED <<broadcast, broadcasts, broadcast_last>>
            /\ UNCHANGED not_bus_vars

\* websocket_endpoint: the client went away
Disconnect ==
    \E websocket \in _connections :
        LET r == disconnect(_connections, _subscribers, websocket)
        IN  /\ broadcast.pc # "loop"
            /\ _connections' = r.connections
            /\ _subscribers' = r.subscribers
            /\ UNCHANGED <<broadcast, broadcasts, broadcast_last>>
            /\ UNCHANGED not_bus_vars

\* broadcast is called: the targets are taken
BroadcastStart ==
    \E channel \in Channels :
        /\ broadcast.pc = "idle"
        /\ broadcasts < MaxBroadcasts
        /\ broadcasts' = broadcasts + 1
        /\ broadcast' = [pc |-> "loop", channel |-> channel,
                         targets |-> Targets(_connections, _subscribers, channel),
                         visited |-> {}, disconnected |-> {}, sent |-> {},
                         current |-> {}, waited |-> 0]
        /\ broadcast_last' = [op |-> "none"]
        /\ UNCHANGED <<_connections, _subscribers>>
        /\ UNCHANGED not_bus_vars

\* the for loop takes its next target and awaits send_text on it
BroadcastSend ==
    /\ broadcast.pc = "loop"
    /\ ~SetChanged
    /\ \E connection \in Remaining :
        broadcast' = [broadcast EXCEPT !.pc = "sending", !.current = {connection},
                                       !.visited = @ \cup {connection}, !.waited = 0]
    /\ UNCHANGED <<_connections, _subscribers, broadcasts, broadcast_last>>
    /\ UNCHANGED not_bus_vars

\* time passes while send_text has not returned: the subscriber does not
\* take the message
SendPending ==
    /\ broadcast.pc = "sending"
    /\ broadcast.waited < MaxWait
    /\ broadcast' = [broadcast EXCEPT !.waited = @ + 1]
    /\ UNCHANGED <<_connections, _subscribers, broadcasts, broadcast_last>>
    /\ UNCHANGED not_bus_vars

\* send_text returns: the subscriber took the message
SendReturns ==
    /\ broadcast.pc = "sending"
    /\ broadcast' = [broadcast EXCEPT !.pc = "loop", !.sent = @ \cup broadcast.current,
                                      !.current = {}]
    /\ UNCHANGED <<_connections, _subscribers, broadcasts, broadcast_last>>
    /\ UNCHANGED not_bus_vars

\* send_text raises: the connection is noted as disconnected
SendRaises ==
    /\ broadcast.pc = "sending"
    /\ broadcast' = [broadcast EXCEPT !.pc = "loop",
                                      !.disconnected = @ \cup broadcast.current,
                                      !.current = {}]
    /\ UNCHANGED <<_connections, _subscribers, broadcasts, broadcast_last>>
    /\ UNCHANGED not_bus_vars

\* the for loop is over: the disconnected are removed and broadcast returns
BroadcastReturn ==
    /\ broadcast.pc = "loop"
    /\ ~SetChanged
    /\ Remaining = {}
    /\ LET r == DisconnectAll(_connections, _subscribers, broadcast.disconnected)
       IN  /\ _connections' = r.connections
           /\ _subscribers' = r.subscribers
    /\ broadcast' = NoBroadcast
    /\ broadcast_last' = [op |-> "broadcast", raised |-> FALSE, targets |-> broadcast.targets,
                          sent |-> broadcast.sent, disconnected |-> broadcast.disconnected]
    /\ UNCHANGED broadcasts
    /\ UNCHANGED not_bus_vars

\* the for loop finds its set changed: RuntimeError leaves broadcast before
\* the clean-up
BroadcastRaises ==
    /\ broadcast.pc = "loop"
    /\ SetChanged
    /\ broadcast' = NoBroadcast
    /\ broadcast_last' = [op |-> "broadcast", raised |-> TRUE, targets |-> broadcast.targets,
                          sent |-> broadcast.sent, disconnected |-> broadcast.disconnected]
    /\ UNCHANGED <<_connections, _subscribers, broadcasts>>
    /\ UNCHANGED not_bus_vars
----------------------------------------------------------------------------
(* Event store: backend/storage/event_store.py.  The events table is the    *)
(* set of its rows; an id of generate_uuid is a number, ids sort as         *)
(* numbers; a timestamp is a number of microseconds.                        *)

\* the values uuid4 can give
Uuids == 1..4

EventTimes == 1..2

EventMessages == {"login failed", "login ok"}

\* a syslog connection and a watched file
EventSources == {"tcp:10.0.0.5", "file:app.log"}

\* event_data of a frame: the dict handed to create, without an id
EventData(message, timestamp) ==
    << [k |-> "message", t |-> "str", v |-> message],
       [k |-> "timestamp", t |-> "datetime", v |-> IntStr(timestamp)] >>

\* EventStore.create: a row with a new id is added, whatever rows exist
create(rows, event_id, message, timestamp) ==
    rows \cup {[id |-> event_id, timestamp |-> timestamp, message |-> message,
                batch_id |-> {}]}

\* the rows, in some order, as ORDER BY timestamp gives them: rows of equal
\* timestamp come in any order
OrderByTimestamp(rows) ==
    {s \in [1..Cardinality(rows) -> rows] :
        /\ \A i, j \in 1..Cardinality(rows) : i # j => s[i] # s[j]
        /\ \A i, j \in 1..Cardinality(rows) : i < j => s[i].timestamp <= s[j].timestamp}

\* EventStore.get_batch_for_hashing: the rows without batch_id, after the
\* timestamp of the row after_id when that row exists, by timestamp, at
\* most batch_size of them; the set of the lists the query can return
get_batch_for_hashing(rows, batch_size, after_id) ==
    LET ref_timestamp == {r.timestamp : r \in {x \in rows : {x.id} = after_id}}
        unhashed == {r \in rows : r.batch_id = {}}
        selected == IF after_id # {} /\ ref_timestamp # {}
                    THEN {r \in unhashed : \A t \in ref_timestamp : r.timestamp > t}
                    ELSE unhashed
    IN  {Take(s, batch_size) : s \in OrderByTimestamp(selected)}

\* EventStore.mark_batch
mark_batch(rows, event_ids, batch_id) ==
    {IF r.id \in event_ids THEN [r EXCEPT !.batch_id = {batch_id}] ELSE r : r \in rows}

NoBatch == [op |-> "none"]

\* an empty events table
StoreInit ==
    /\ event_rows = {}
    /\ persisted = <<>>
    /\ blocks_marked = 0
    /\ batch_last = NoBatch

\* a frame of a source was parsed and is persisted: create generates the id
CreateEvent ==
    \E source \in EventSources, message \in EventMessages, timestamp \in EventTimes,
       event_id \in Uuids \ {r.id : r \in event_rows} :
        /\ Len(persisted) < MaxStored
        /\ event_rows' = create(event_rows, event_id, message, timestamp)
        /\ persisted' = Append(persisted, [source |-> source, id |-> event_id,
                                           hash |-> hash_event(EventData(message, timestamp))])
        /\ batch_last' = NoBatch
        /\ UNCHANGED blocks_marked
        /\ UNCHANGED not_store_vars

\* the chain manager asks for the next events to hash
GetBatchForHashing ==
    \E batch_size \in 1..MaxBatchSize, after_id \in {{}} \cup {{u} : u \in Uuids} :
        \E batch \in get_batch_for_hashing(event_rows, batch_size, after_id) :
            /\ event_rows # {}
            /\ batch_last' = [op |-> "get_batch_for_hashing", batch_size |-> batch_size,
                              after_id |-> after_id, events |-> batch]
            /\ UNCHANGED <<event_rows, persisted, blocks_marked>>
            /\ UNCHANGED not_store_vars

\* the events of the batch are stamped with their block
MarkBatch ==
    /\ batch_last.op = "get_batch_for_hashing"
    /\ batch_last.events # <<>>
    /\ event_rows' = mark_batch(event_rows, {e.id : e \in Range(batch_last.events)},
                                blocks_marked + 1)
    /\ blocks_marked' = blocks_marked + 1
    /\ batch_last' = NoBatch
    /\ UNCHANGED persisted
    /\ UNCHANGED not_store_vars
----------------------------------------------------------------------------
(* Shutdown: lifespan of backend/api/main.py, IngestionManager.stop and     *)
(* SyslogCollector.stop.  The queue and the unhashed events are counted.    *)

\* SyslogCollector.stop: the UDP transport and the TCP server are closed;
\* the connections already open and the queue are left as they are
SyslogCollector_stop(s) == [s EXCEPT !.collector_running = FALSE, !.listening = FALSE]

\* IngestionManager.stop: the manager stops its collector and its watcher
IngestionManager_stop(s) == [SyslogCollector_stop(s) EXCEPT !.manager_running = FALSE]

\* lifespan after the yield: the database manager is closed, nothing else
lifespan_shutdown(s) == [s EXCEPT !.db_open = FALSE]

\* lifespan before the yield, then IngestionManager.start
ShutdownInit ==
    /\ lifecycle = [manager_running |-> TRUE, collector_running |-> TRUE,
                    listening |-> TRUE, tcp_clients |-> 0, db_open |-> TRUE]
    /\ pending = [queued |-> 0, unhashed |-> 0, blocks |-> 0]
    /\ shutdown_last = [op |-> "none"]

\* asyncio.start_server accepts a client: handle_client runs for it
ClientConnects ==
    /\ lifecycle.listening
    /\ lifecycle.tcp_clients = 0
    /\ lifecycle' = [lifecycle EXCEPT !.tcp_clients = 1]
    /\ UNCHANGED <<pending, shutdown_last>>
    /\ UNCHANGED not_shutdown_vars

\* handle_client reads end of file
ClientCloses ==
    /\ lifecycle.tcp_clients = 1
    /\ lifecycle' = [lifecycle EXCEPT !.tcp_clients = 0]
    /\ UNCHANGED <<pending, shutdown_last>>
    /\ UNCHANGED not_shutdown_vars

\* a datagram on the open transport or a line on an open connection reaches
\* _process_message, which does not look at _running
FrameArrives ==
    /\ lifecycle.listening \/ lifecycle.tcp_clients > 0
    /\ pending.queued < QueueMaxsize
    /\ pending' = [pending EXCEPT !.queued = @ + 1]
    /\ UNCHANGED <<lifecycle, shutdown_last>>
    /\ UNCHANGED not_shutdown_vars

\* a queued frame is taken, parsed and persisted
PersistFrame ==
    /\ lifecycle.db_open
    /\ pending.queued > 0
    /\ pending.unhashed < MaxStored
    /\ pending' = [pending EXCEPT !.queued = @ - 1, !.unhashed = @ + 1]
    /\ UNCHANGED <<lifecycle, shutdown_last>>
    /\ UNCHANGED not_shutdown_vars

\* the unhashed events are committed to a chain block
CommitBlock ==
    /\ lifecycle.db_open
    /\ pending.unhashed > 0
    /\ pending.blocks < MaxBlocks
    /\ pending' = [pending EXCEPT !.unhashed = 0, !.blocks = @ + 1]
    /\ UNCHANGED <<lifecycle, shutdown_last>>
    /\ UNCHANGED not_shutdown_vars

\* IngestionManager.stop is called
StopIngestion ==
    /\ lifecycle.manager_running
    /\ lifecycle' = IngestionManager_stop(lifecycle)
    /\ UNCHANGED <<pending, shutdown_last>>
    /\ UNCHANGED not_shutdown_vars

\* the application shuts down: lifespan resumes after its yield
LifespanShutdown ==
    /\ lifecycle.db_open
    /\ lifecycle' = lifespan_shutdown(lifecycle)
    /\ shutdown_last' = [op |-> "shutdown", lifecycle |-> lifecycle', pending |-> pending]
    /\ UNCHANGED pending
    /\ UNCHANGED not_shutdown_vars
----------------------------------------------------------------------------
(* Threat score: backend/detection/scorer.py on the detections of           *)
(* SigmaMatcher._create_detection and MitreMapper.enrich_detection.         *)
(* Weights are in hundredths, multipliers and confidence in tenths, a       *)
(* score in ten-thousandths of a point.                                     *)

\* ThreatScorer.SEVERITY_SCORES.get(severity, 50)
SEVERITY_SCORES(severity) ==
    CASE severity = "critical" -> 100
      [] severity = "high" -> 80
      [] severity = "medium" -> 50
      [] severity = "low" -> 25
      [] severity = "informational" -> 10
      [] OTHER -> 50

\* ThreatScorer.DETECTION_TYPE_SCORES.get(detection_type, 0.7), in tenths
DETECTION_TYPE_SCORES(detection_type) ==
    CASE detection_type = "sigma" -> 10
      [] detection_type = "ml" -> 8
      [] detection_type = "heuristic" -> 6
      [] detection_type = "correlation" -> 9
      [] OTHER -> 7

\* the default weights of ThreatScorer.__init__, in hundredths
DefaultWeights == [sigma |-> 40, mitre |-> 20, ml |-> 30, heuristic |-> 10]

\* ThreatScorer.__init__: the weights are divided by their sum
ThreatScorer_init(weights) ==
    LET total == weights.sigma + weights.mitre + weights.ml + weights.heuristic
    IN  IF total > 0 THEN [k \in DOMAIN weights |-> (weights[k] * 100) \div total]
        ELSE weights

\* the tactics MitreMapper.techniques gives a technique
TechniqueTactics(technique) ==
    CASE technique = "T1110" -> {"credential-access"}
      [] technique = "T1078" -> {"defense-evasion", "persistence",
                                 "privilege-escalation", "initial-access"}
      [] OTHER -> {}

\* the tags a rule can carry
RuleTags == {"attack.t1110", "attack.t1078", "attack.credential_access", "cve.2021"}

RuleLevels == {"critical", "high", "medium", "low", "informational", "none"}

\* SigmaMatcher._create_detection: severity from the level, techniques from
\* the tags attack.t..., tactics from the other attack tags
_create_detection(level, tags) ==
    [severity |-> IF level \in {"critical", "high", "medium", "low", "informational"}
                  THEN level ELSE "medium",
     detection_type |-> "sigma",
     mitre_techniques |-> {IF t = "attack.t1110" THEN "T1110" ELSE "T1078" :
                              t \in tags \cap {"attack.t1110", "attack.t1078"}},
     mitre_tactics |-> {"credential_access" : t \in tags \cap {"attack.credential_access"}},
     confidence |-> 9,
     threat_score |-> 0]

\* MitreMapper.enrich_detection: the tactics of the techniques are added
enrich_detection(detection) ==
    [detection EXCEPT !.mitre_tactics =
        @ \cup UNION {TechniqueTactics(t) : t \in detection.mitre_techniques}]

\* ThreatScorer.score, before the rounding of threat_score
ThreatScorer_score(scorer, detection) ==
    LET severity_score == SEVERITY_SCORES(detection.severity)
        type_multiplier == DETECTION_TYPE_SCORES(detection.detection_type)
        techniques == Cardinality(detection.mitre_techniques)
        tactics == Cardinality(detection.mitre_tactics)
        mitre_bonus == (IF techniques > 0 THEN Min(techniques * 5, 20) ELSE 0)
                       + (IF tactics > 0 THEN Min(tactics * 3, 15) ELSE 0)
        confidence_factor == IF detection.confidence > 5 THEN detection.confidence ELSE 5
        base_score == severity_score * type_multiplier
        weight == CASE detection.detection_type = "sigma" -> scorer.sigma
                    [] detection.detection_type = "ml" -> scorer.ml
                    [] detection.detection_type = "heuristic" -> scorer.heuristic
                    [] OTHER -> 50
        weighted == base_score * weight + mitre_bonus * 10 * scorer.mitre
        final_score == weighted * confidence_factor
    IN  IF final_score > 1000000 THEN 1000000
        ELSE IF final_score < 0 THEN 0 ELSE final_score

\* no detection yet
ScorerInit ==
    /\ scored_detection = {}
    /\ scoring_step = "none"

\* a rule matched: the matcher creates its detection
CreateDetection ==
    \E level \in RuleLevels, tags \in SUBSET RuleTags :
        /\ scoring_step \in {"none", "scored"}
        /\ scored_detection' = {_create_detection(level, tags)}
        /\ scoring_step' = "created"
        /\ UNCHANGED not_scorer_vars

\* analyze: the MITRE mapper enriches the detection, when there is a mapper
EnrichDetection ==
    /\ scoring_step = "created"
    /\ scored_detection' = {enrich_detection(d) : d \in scored_detection}
    /\ scoring_step' = "enriched"
    /\ UNCHANGED not_scorer_vars

\* analyze: the scorer sets threat_score
ScoreDetection ==
    /\ scoring_step \in {"created", "enriched"}
    /\ scored_detection' =
          {[d EXCEPT !.threat_score = ThreatScorer_score(ThreatScorer_init(DefaultWeights), d)] :
              d \in scored_detection}
    /\ scoring_step' = "scored"
    /\ UNCHANGED not_scorer_vars
----------------------------------------------------------------------------
(* IntegrityVerifier.verify_event_in_batch as a function of its arguments *)

\* the events a caller can hand in
InclusionEvents == {OriginalEvent(1), OriginalEvent(2), TamperedEvent(1)}

\* verify_event_in_batch that does not look for the event in the batch
verify_event_in_batch_NoLookup(event, batch_events, expected_merkle_root) ==
    LET event_hash == hash_event(event)
        event_hashes == [i \in 1..Len(batch_events) |-> hash_event(batch_events[i])]
        computed_merkle == compute_merkle_root(event_hashes)
    IN  IF computed_merkle = IndexError THEN [raised |-> TRUE]
        ELSE [raised |-> FALSE, valid |-> computed_merkle = expected_merkle_root,
              event_hash |-> event_hash, position |-> {0},
              computed_merkle |-> computed_merkle]

\* IntegrityVerifier.verify_event_in_batch: not valid when the hash of the
\* event is not among the hashes of the batch; else valid when the Merkle
\* root of the batch is the expected one, with the first index of the hash
\* (counted from 0); an exception of compute_merkle_root leaves the call
verify_event_in_batch(event, batch_events, expected_merkle_root) ==
    LET event_hash == hash_event(event)
        event_hashes == [i \in 1..Len(batch_events) |-> hash_event(batch_events[i])]
        found == {i \in 1..Len(event_hashes) : event_hashes[i] = event_hash}
        computed_merkle == compute_merkle_root(event_hashes)
    IN  IF found = {}
        THEN [raised |-> FALSE, valid |-> FALSE, event_hash |-> event_hash,
              position |-> {}, computed_merkle |-> NoHash]
        ELSE IF computed_merkle = IndexError THEN [raised |-> TRUE]
        ELSE [raised |-> FALSE, valid |-> computed_merkle = expected_merkle_root,
              event_hash |-> event_hash,
              position |-> {(CHOOSE i \in found : \A j \in found : i <= j) - 1},
              computed_merkle |-> computed_merkle]

\* no call
InclusionIdle ==
    /\ incl_args = [event |-> OriginalEvent(1), batch_events |-> <<>>, root |-> NoHash]
    /\ incl_result = [op |-> "none"]

\* the arguments of a call: an event, a batch, and as expected root the root
\* of the batch, the root of the batch without its last event, or no hash
InclusionStart ==
    /\ \E event \in InclusionEvents, batch_events \in SeqsUpTo(InclusionEvents, MaxBatchEvents),
          which \in {"batch", "shorter", "none"} :
          incl_args = [event |-> event, batch_events |-> batch_events,
                       root |-> LET hashes == [i \in 1..Len(batch_events) |->
                                                  hash_event(batch_events[i])]
                                IN  CASE which = "batch" -> compute_merkle_root(hashes)
                                      [] which = "shorter" ->
                                            compute_merkle_root(Take(hashes, Len(hashes) - 1))
                                      [] OTHER -> NoHash]
    /\ incl_result = [op |-> "none"]

VerifyEventInBatch ==
    /\ incl_result.op = "none"
    /\ incl_result' = [op |-> "verify_event_in_batch",
                       result |-> verify_event_in_batch(incl_args.event,
                                      incl_args.batch_events, incl_args.root)]
    /\ UNCHANGED incl_args
    /\ UNCHANGED not_inclusion_vars
----------------------------------------------------------------------------
(* ChainManager.add_block called from several threads on one ledger: a     *)
(* call reads the latest block in one session and commits its block in     *)
(* another, with no lock between the two.                                   *)

\* the threads that call add_block
Callers == {"t1", "t2"}

\* the batches of events they commit
CallerBatches == {<<1>>, <<2>>, <<1, 2>>}

\* add_block up to the HashBlock it builds: the previous hash is read and
\* the batch hashed
add_block_read(rows, ids) ==
    LET events == [i \in 1..Len(ids) |-> OriginalEvent(ids[i])]
        previous_hash == get_previous_hash(rows)
        hash_result == compute_batch_hash(events, previous_hash)
    IN  [block_hash |-> hash_result.hash_value, previous_hash |-> previous_hash,
         merkle_root |-> hash_result.merkle_root, event_count |-> hash_result.event_count]

\* session.add and session.commit: the row gets the next id; a block_hash
\* already stored violates the unique constraint and the commit raises
add_block_commit(rows, block) ==
    IF \E i \in 1..Len(rows) : rows[i].block_hash = block.block_hash
    THEN [rows |-> rows, raised |-> TRUE]
    ELSE [rows |-> Append(rows, [id |-> NewBlockId(rows)] @@ block), raised |-> FALSE]

\* ChainManager.__init__ on a new ledger; no call in progress
LedgerInit ==
    /\ ledger_rows = <<>>
    /\ ledger_calls = [c \in Callers |-> {}]

\* a thread enters add_block and reads the previous hash
AddBlockRead ==
    \E c \in Callers, ids \in CallerBatches :
        /\ ledger_calls[c] = {}
        /\ Len(ledger_rows) + Cardinality({x \in Callers : ledger_calls[x] # {}}) < MaxLedgerBlocks
        /\ ledger_calls' = [ledger_calls EXCEPT ![c] = {add_block_read(ledger_rows, ids)}]
        /\ UNCHANGED ledger_rows
        /\ UNCHANGED not_ledger_vars

\* the thread commits its block and leaves add_block
AddBlockCommit ==
    \E c \in Callers :
        /\ ledger_calls[c] # {}
        /\ ledger_rows' = add_block_commit(ledger_rows, CHOOSE b \in ledger_calls[c] : TRUE).rows
        /\ ledger_calls' = [ledger_calls EXCEPT ![c] = {}]
        /\ UNCHANGED not_ledger_vars
----------------------------------------------------------------------------
(* FileWatcher on one file that is only appended to, character by         *)
(* character: backend/ingestion/file_watcher.py.  The file's content is   *)
(* the sequence of its characters, an offset is a number of characters.   *)

\* what a writer appends: a letter or the line terminator
TailChars == {"a", "\n"}

\* str.splitlines: the text between line terminators, the unterminated
\* rest included, no empty string after a final terminator
RECURSIVE splitlines(_)
splitlines(content) ==
    IF content = <<>> THEN <<>>
    ELSE LET ends == {i \in 1..Len(content) : content[i] = "\n"}
         IN  IF ends = {} THEN <<content>>
             ELSE LET i == CHOOSE e \in ends : \A o \in ends : e <= o
                  IN  <<SubSeq(content, 1, i - 1)>>
                          \o splitlines(SubSeq(content, i + 1, Len(content)))

\* _read_new_lines: seek(start), read(end - start), splitlines
_read_new_lines_chars(content, start, end) ==
    splitlines(SubSeq(content, start + 1, end))

\* the body of the loop of _check_files for a file whose inode is the one
\* recorded: [position, new_lines]
check_file_chars(content, previous_pos) ==
    LET current_size == Len(content)
        rotated == current_size < previous_pos
        pos == IF rotated THEN 0 ELSE previous_pos
    IN  IF current_size > pos
        THEN [position |-> current_size,
              new_lines |-> _read_new_lines_chars(content, pos, current_size)]
        ELSE [position |-> pos, new_lines |-> <<>>]

\* the file exists before the watcher has seen it
TailInit ==
    /\ tail_content \in {<<>>, <<"a", "\n">>}
    /\ tail_start = {}
    /\ tail_position = 0
    /\ tail_delivered = <<>>
    /\ tail_last = "none"

TailIdle ==
    /\ tail_content = <<>>
    /\ tail_start = {}
    /\ tail_position = 0
    /\ tail_delivered = <<>>
    /\ tail_last = "none"

\* a writer appends one character to the file
TailWrite ==
    \E c \in TailChars :
        /\ Len(tail_content) < MaxBytes
        /\ tail_content' = Append(tail_content, c)
        /\ tail_last' = "write"
        /\ UNCHANGED <<tail_start, tail_position, tail_delivered>>
        /\ UNCHANGED not_tail_vars

\* one round of _check_files: _scan_directory adds the file at its size if
\* it is new, then the file is checked and on_new_lines gets what was read
TailCheckFiles ==
    LET previous_pos == IF tail_start = {} THEN Len(tail_content) ELSE tail_position
        r == check_file_chars(tail_content, previous_pos)
    IN  /\ tail_start' = IF tail_start = {} THEN {Len(tail_content)} ELSE tail_start
        /\ tail_position' = r.position
        /\ tail_delivered' = tail_delivered \o r.new_lines
        /\ tail_last' = "poll"
        /\ UNCHANGED tail_content
        /\ UNCHANGED not_tail_vars

----------------------------------------------------------------------------
(* BehavioralBaseline: backend/detection/anomaly/behavioral_baseline.py.   *)
(* Time is the whole number of days since _start_time (timedelta.days).   *)

\* the defaults of __init__; nothing in the repository passes other values
learning_days == 7
min_events == 100

\* an event whose "user", "host", ... are dicts or absent, and one where
\* such a key holds something that has no get
BaselineEvents == {"dicts", "no_get"}

\* __init__ in a directory without users.json: _load_baselines loads nothing
BaselineInit ==
    /\ _learning_mode = TRUE
    /\ _events_processed = 0
    /\ elapsed_days = 0
    /\ baselines_saved = 0
    /\ update_last = [op |-> "none"]

\* update: [raised, _learning_mode, _events_processed, saved]; saving is
\* attempted when learning ends and an error of the file system is logged
update(learning, processed, event, days, disk_ok) ==
    LET count == processed + 1
        complete == /\ learning
                    /\ days >= learning_days
                    /\ count >= min_events
    IN  IF event = "no_get"
        THEN [raised |-> TRUE, _learning_mode |-> learning,
              _events_processed |-> count, saved |-> FALSE]
        ELSE [raised |-> FALSE, _learning_mode |-> IF complete THEN FALSE ELSE learning,
              _events_processed |-> count, saved |-> complete /\ disk_ok]

\* one call of update
BaselineUpdate ==
    \E event \in BaselineEvents, disk_ok \in BOOLEAN :
        LET r == update(_learning_mode, _events_processed, event, elapsed_days, disk_ok)
        IN  /\ _events_processed < MaxUpdates
            /\ _learning_mode' = r._learning_mode
            /\ _events_processed' = r._events_processed
            /\ baselines_saved' = baselines_saved + (IF r.saved THEN 1 ELSE 0)
            /\ update_last' = [op |-> "update", raised |-> r.raised, saved |-> r.saved,
                               learning_before |-> _learning_mode]
            /\ UNCHANGED elapsed_days
            /\ UNCHANGED not_baseline_vars

\* a day goes by
DayPasses ==
    /\ elapsed_days < MaxDays
    /\ elapsed_days' = elapsed_days + 1
    /\ update_last' = [op |-> "none"]
    /\ UNCHANGED <<_learning_mode, _events_processed, baselines_saved>>
    /\ UNCHANGED not_baseline_vars

----------------------------------------------------------------------------
(* Specifications *)

\* the subsystems a specification does not run
BlockchainIdle == ChainInit /\ SyncInit /\ MerkleIdle

ParsersIdle == RegistryInit /\ CsvInit

MatcherIdle == CondIdle /\ ReloadIdle

\* the later subsystems at rest
LaterIdle == EngineInit /\ SyslogInit /\ WatcherInit /\ IngestInit /\ AnomalyInit /\ AlertsInit /\ BusInit /\ StoreInit /\ ShutdownInit /\ ScorerInit /\ InclusionIdle /\ LedgerInit /\ TailIdle /\ BaselineInit

EarlyIdle == BlockchainIdle /\ ParsersIdle /\ MatcherIdle

NotEngineIdle == EarlyIdle /\ SyslogInit /\ WatcherInit /\ IngestInit /\ AnomalyInit /\ AlertsInit /\ BusInit /\ StoreInit /\ ShutdownInit /\ ScorerInit /\ InclusionIdle /\ LedgerInit /\ TailIdle /\ BaselineInit

NotSyslogIdle == EarlyIdle /\ EngineInit /\ WatcherInit /\ IngestInit /\ AnomalyInit /\ AlertsInit /\ BusInit /\ StoreInit /\ ShutdownInit /\ ScorerInit /\ InclusionIdle /\ LedgerInit /\ TailIdle /\ BaselineInit

NotWatcherIdle == EarlyIdle /\ EngineInit /\ SyslogInit /\ IngestInit /\ AnomalyInit /\ AlertsInit /\ BusInit /\ StoreInit /\ ShutdownInit /\ ScorerInit /\ InclusionIdle /\ LedgerInit /\ TailIdle /\ BaselineInit

NotIngestIdle == EarlyIdle /\ EngineInit /\ SyslogInit /\ WatcherInit /\ AnomalyInit /\ AlertsInit /\ BusInit /\ StoreInit /\ ShutdownInit /\ ScorerInit /\ InclusionIdle /\ LedgerInit /\ TailIdle /\ BaselineInit

NotAnomalyIdle == EarlyIdle /\ EngineInit /\ SyslogInit /\ WatcherInit /\ IngestInit /\ AlertsInit /\ BusInit /\ StoreInit /\ ShutdownInit /\ ScorerInit /\ InclusionIdle /\ LedgerInit /\ TailIdle /\ BaselineInit

NotAlertsIdle == EarlyIdle /\ EngineInit /\ SyslogInit /\ WatcherInit /\ IngestInit /\ AnomalyInit /\ BusInit /\ StoreInit /\ ShutdownInit /\ ScorerInit /\ InclusionIdle /\ LedgerInit /\ TailIdle /\ BaselineInit

NotBusIdle == EarlyIdle /\ EngineInit /\ SyslogInit /\ WatcherInit /\ IngestInit /\ AnomalyInit /\ AlertsInit /\ StoreInit /\ ShutdownInit /\ ScorerInit /\ InclusionIdle /\ LedgerInit /\ TailIdle /\ BaselineInit

NotStoreIdle == EarlyIdle /\ EngineInit /\ SyslogInit /\ WatcherInit /\ IngestInit /\ AnomalyInit /\ AlertsInit /\ BusInit /\ ShutdownInit /\ ScorerInit /\ InclusionIdle /\ LedgerInit /\ TailIdle /\ BaselineInit

NotShutdownIdle == EarlyIdle /\ EngineInit /\ SyslogInit /\ WatcherInit /\ IngestInit /\ AnomalyInit /\ AlertsInit /\ BusInit /\ StoreInit /\ ScorerInit /\ InclusionIdle /\ LedgerInit /\ TailIdle /\ BaselineInit

NotScorerIdle == EarlyIdle /\ EngineInit /\ SyslogInit /\ WatcherInit /\ IngestInit /\ AnomalyInit /\ AlertsInit /\ BusInit /\ StoreInit /\ ShutdownInit /\ InclusionIdle /\ LedgerInit /\ TailIdle /\ BaselineInit

NotInclusionIdle == EarlyIdle /\ EngineInit /\ SyslogInit /\ WatcherInit /\ IngestInit /\ AnomalyInit /\ AlertsInit /\ BusInit /\ StoreInit /\ ShutdownInit /\ ScorerInit /\ LedgerInit /\ TailIdle /\ BaselineInit

NotLedgerIdle == EarlyIdle /\ EngineInit /\ SyslogInit /\ WatcherInit /\ IngestInit /\ AnomalyInit /\ AlertsInit /\ BusInit /\ StoreInit /\ ShutdownInit /\ ScorerInit /\ InclusionIdle /\ TailIdle /\ BaselineInit

NotTailIdle == EarlyIdle /\ EngineInit /\ SyslogInit /\ WatcherInit /\ IngestInit /\ AnomalyInit /\ AlertsInit /\ BusInit /\ StoreInit /\ ShutdownInit /\ ScorerInit /\ InclusionIdle /\ LedgerInit /\ BaselineInit

NotBaselineIdle == EarlyIdle /\ EngineInit /\ SyslogInit /\ WatcherInit /\ IngestInit /\ AnomalyInit /\ AlertsInit /\ BusInit /\ StoreInit /\ ShutdownInit /\ ScorerInit /\ InclusionIdle /\ LedgerInit /\ TailIdle

InitMerkle == MerkleInit /\ ChainInit /\ SyncInit /\ ParsersIdle /\ MatcherIdle /\ LaterIdle

NextMerkle == CallMerkleRoot

SpecMerkle == InitMerkle /\ [][NextMerkle]_vars

InitChain == ChainInit /\ SyncInit /\ MerkleIdle /\ ParsersIdle /\ MatcherIdle /\ LaterIdle

NextChain == AddBlock \/ TamperBlock \/ VerifyChain

SpecChain == InitChain /\ [][NextChain]_vars

InitIntegrity == ChainInit /\ SyncInit /\ MerkleIdle /\ ParsersIdle /\ MatcherIdle /\ LaterIdle

NextIntegrity == AddBlock \/ MutateEvent \/ TamperBlock \/ GenerateIntegrityReport

SpecIntegrity == InitIntegrity /\ [][NextIntegrity]_vars

InitSync == ChainInit /\ SyncInit /\ MerkleIdle /\ ParsersIdle /\ MatcherIdle /\ LaterIdle

NextSync ==
    SyncAddBlock \/ ExportSyncPackage \/ EditPackage \/ VerifyPackage \/ ImportBlockchain

SpecSync == InitSync /\ [][NextSync]_vars

\* the registry: a new one, or the global one with the default parsers
InitRegistry == (RegistryInit \/ RegistryDefault) /\ CsvInit /\ BlockchainIdle /\ MatcherIdle /\ LaterIdle

NextRegistry == Register \/ Unregister \/ DetectParser

SpecRegistry == InitRegistry /\ [][NextRegistry]_vars

\* lines of CSV files through the global registry
InitCsv == RegistryDefault /\ CsvInit /\ BlockchainIdle /\ MatcherIdle /\ LaterIdle

NextCsv == ParseLine

SpecCsv == InitCsv /\ [][NextCsv]_vars

\* _evaluate_condition on every condition and every truth assignment
InitCond == CondInit /\ ReloadIdle /\ BlockchainIdle /\ ParsersIdle /\ LaterIdle

NextCond == EvaluateCondition

SpecCond == InitCond /\ [][NextCond]_vars

\* reloads and matches on the event loop
InitReload == ReloadInit /\ CondIdle /\ BlockchainIdle /\ ParsersIdle /\ LaterIdle

NextReload ==
    \/ EditRules \/ ScheduleReload \/ ScheduleMatch
    \/ LoadStart \/ LoadAppend \/ LoadFinish
    \/ MatchStart \/ MatchNext \/ MatchFinish

SpecReload == InitReload /\ [][NextReload]_vars

\* the detection engine under every setting
InitEngine == EngineStart /\ NotEngineIdle

NextEngine == InitializeEngine \/ Analyze

SpecEngine == InitEngine /\ [][NextEngine]_vars

\* the syslog collector
InitSyslog == SyslogInit /\ NotSyslogIdle

NextSyslog == StartCollector \/ ProcessMessage \/ GetMessages

SpecSyslog == InitSyslog /\ [][NextSyslog]_vars

\* the file watcher and the writers of the files
InitWatcher == WatcherInit /\ NotWatcherIdle

NextWatcher ==
    \/ StartWatcher \/ CheckFiles
    \/ WriteLine \/ RotateFile \/ TruncateFile \/ DeleteFile

SpecWatcher == InitWatcher /\ [][NextWatcher]_vars

\* frames through the ingestion manager and the global registry
InitIngest == IngestStart /\ NotIngestIdle

NextIngest == HandleSyslog \/ HandleFileLines

SpecIngest == InitIngest /\ [][NextIngest]_vars

\* the anomaly detector over the life of its model file
InitAnomaly == AnomalyStart /\ NotAnomalyIdle

NextAnomaly == InitializeDetector \/ Detect \/ ForceRetrain \/ StopDetector

SpecAnomaly == InitAnomaly /\ [][NextAnomaly]_vars

\* alerts and the requests that change their status
InitAlerts == AlertsInit /\ NotAlertsIdle

NextAlerts == CreateAlert \/ AcknowledgeAlert \/ UpdateAlertStatus

SpecAlerts == InitAlerts /\ [][NextAlerts]_vars

\* the subscription bus: clients come and go while broadcasts run
InitBus == BusInit /\ NotBusIdle

NextBus ==
    \/ Connect
    \/ Disconnect
    \/ BroadcastStart
    \/ BroadcastSend
    \/ SendPending
    \/ SendReturns
    \/ SendRaises
    \/ BroadcastReturn
    \/ BroadcastRaises

SpecBus == InitBus /\ [][NextBus]_vars

\* the events table under creates and the batches of the chain manager
InitStore == StoreInit /\ NotStoreIdle

NextStore == CreateEvent \/ GetBatchForHashing \/ MarkBatch

SpecStore == InitStore /\ [][NextStore]_vars

\* frames, commits and the shutdown of the application
InitShutdown == ShutdownInit /\ NotShutdownIdle

NextShutdown ==
    \/ ClientConnects
    \/ ClientCloses
    \/ FrameArrives
    \/ PersistFrame
    \/ CommitBlock
    \/ StopIngestion
    \/ LifespanShutdown

SpecShutdown == InitShutdown /\ [][NextShutdown]_vars

\* rule detections created, enriched and scored
InitScorer == ScorerInit /\ NotScorerIdle

NextScorer == CreateDetection \/ EnrichDetection \/ ScoreDetection

SpecScorer == InitScorer /\ [][NextScorer]_vars

\* verify_event_in_batch on an event, a batch and an expected root
InitInclusion == InclusionStart /\ NotInclusionIdle

NextInclusion == VerifyEventInBatch

SpecInclusion == InitInclusion /\ [][NextInclusion]_vars

\* add_block from several threads
InitLedger == LedgerInit /\ NotLedgerIdle

NextLedger == AddBlockRead \/ AddBlockCommit

SpecLedger == InitLedger /\ [][NextLedger]_vars

\* a file appended to between polls
InitTail == TailInit /\ NotTailIdle

NextTail == TailWrite \/ TailCheckFiles

SpecTail == InitTail /\ [][NextTail]_vars

\* a baseline that starts without saved profiles
InitBaseline == BaselineInit /\ NotBaselineIdle

NextBaseline == BaselineUpdate \/ DayPasses

SpecBaseline == InitBaseline /\ [][NextBaseline]_vars

----------------------------------------------------------------------------
(* Properties of the hash chain *)

Continuous(rows) ==
    \A i \in 2..Len(rows) : rows[i].previous_hash = rows[i - 1].block_hash

\* C1: after add_block calls only, the first stored block has no
\* previous_hash and every later block's previous_hash is the block_hash of
\* the block stored just before it.
C1_ChainContinuity ==
    tampers = 0 =>
        /\ hash_blocks # <<>> => hash_blocks[1].previous_hash = NoHash
        /\ Continuous(hash_blocks)

C1_Witness ==
    /\ tampers = 0
    /\ Len(hash_blocks) >= 2
    /\ last_call = [op |-> "add_block", raised |-> FALSE]

\* the root the specification describes: at every level an odd count is
\* padded with its last entry, then adjacent pairs are hashed
RECURSIVE PaddedLevels(_)
PaddedLevels(hashes) ==
    IF Len(hashes) = 1 THEN hashes[1]
    ELSE PaddedLevels(NextLevel(IF Len(hashes) % 2 = 1
                                THEN Append(hashes, Last(hashes)) ELSE hashes))

\* C2: compute_merkle_root returns a hash for every list of leaves: H("")
\* for none, the leaf for one, the root of the padded pairwise levels for
\* two or more; it never raises.
C2_MerkleRootTotal ==
    m_root # NotCalled =>
        /\ m_root # IndexError
        /\ m_root = IF m_hashes = <<>> THEN hash_string(<<>>)
                    ELSE PaddedLevels(m_hashes)

\* an event a block covers whose stored content is no longer what was hashed
ChangedAfterCommit ==
    \E i \in EventIds : committed[i] # <<>> /\ store[i] # committed[i]

\* C3: once an event covered by a block has been changed in storage, the
\* integrity report has status "compromised" and lists at least one error.
C3_TamperingReported ==
    (last_call.op = "generate_integrity_report" /\ ChangedAfterCommit) =>
        /\ ~last_call.raised
        /\ last_call.result.status = "compromised"
        /\ Len(last_call.result.errors) >= 1

Broken(rows) ==
    \E i \in 2..Len(rows) : rows[i].previous_hash # rows[i - 1].block_hash

ContentAltered ==
    \E a \in altered : a[2] \in {"merkle_root", "event_count", "block_hash"}

\* C26: once the merkle_root, the event_count or the block_hash of a stored
\* block, the last one included, has been rewritten, verify_chain over the
\* whole chain answers valid = false.
C26_AlteredBlockDetected ==
    (last_call.op = "verify_chain" /\ ContentAltered) => ~last_call.result.valid

----------------------------------------------------------------------------
(* Properties of sync packages *)

\* a package as export_sync_package wrote it, from a non-empty event list
\* and with the chain included
ExportedWhole ==
    /\ package.present
    /\ ~pkg_edited
    /\ Len(package.manifest.contents) = 2

\* C5: the package export_sync_package writes for a non-empty event list
\* and a chain built by add_block passes verify_package, and
\* import_blockchain accepts it and counts the blocks that were exported.
C5_ExportImportRoundTrip ==
    ExportedWhole =>
        /\ last_call.op = "verify_package" =>
              /\ ~last_call.result.raised
              /\ last_call.result.valid
        /\ last_call.op = "import_blockchain" =>
              /\ ~last_call.result.raised
              /\ last_call.result.success
              /\ last_call.result.blocks_imported = package.manifest.contents[2].count
              /\ last_call.result.blocks_imported = Len(package.chain_file.data)

C5_Witness ==
    /\ ExportedWhole
    /\ last_call.op = "import_blockchain"
    /\ ~last_call.result.raised
    /\ last_call.result.success
    /\ last_call.result.blocks_imported = 2
    /\ Len(package.events_file.lines) = 2

\* a file the manifest lists is missing, or hashes to something else than
\* the manifest records
ListedFileBad ==
    /\ package.present
    /\ \E i \in 1..Len(package.manifest.contents) :
          CheckContent(package, package.manifest.contents[i]) \in {"missing", "mismatch"}

\* C6: when a file the manifest lists is missing or its recomputed hash
\* differs from the recorded one, import_blockchain returns success = false.
C6_BadPackageRejected ==
    (last_call.op = "import_blockchain" /\ ListedFileBad) =>
        /\ ~last_call.result.raised
        /\ ~last_call.result.success

----------------------------------------------------------------------------
(* Properties of the parser registry and the CSV parser *)

\* the registered parsers that accept the line of the last detect_parser call
Accepting == {p \in _parsers : can_parse(p, detected.raw_log)}

(* C7: after register calls with distinct parser ids, detect_parser(raw)    *)
(* returns the parser of the lowest priority number among the registered    *)
(* parsers whose can_parse(raw) is true, and None when none accepts raw.    *)
C7_LowestPriorityDetected ==
    (detected.op = "detect_parser" /\ ~reg_repeated) =>
        IF Accepting = {} THEN detected.parser = NoParser
        ELSE /\ detected.parser \in Accepting
             /\ \A q \in Accepting : priority_of[detected.parser] <= priority_of[q]

(* C8: CSV header state is per stream: no row of a file is mapped against   *)
(* a header learned from another file, and no header is held when the       *)
(* first line of a file is parsed, also when the lines of several files go  *)
(* interleaved through the one registry.                                    *)
C8_HeaderPerStream ==
    csv_last.op = "parse" =>
        /\ csv_last.event # {} => csv_last.header_from = csv_last.file
        /\ csv_last.first_line => ~csv_last.held_before

----------------------------------------------------------------------------
(* Properties of the rule matcher *)

\* the "not" in front of a condition
LeadingNots(cond) ==
    IF \A i \in 1..Len(cond) : cond[i] = "not" THEN Len(cond)
    ELSE (CHOOSE i \in 1..Len(cond) : cond[i] # "not" /\ \A j \in 1..(i - 1) : cond[j] = "not") - 1

Unnegated(cond) == SubSeq(cond, LeadingNots(cond) + 1, Len(cond))

\* v under n negations
Negated(n, v) == IF n % 2 = 0 THEN v ELSE ~v

\* an operand: a name behind its "not"
OperandValue(cond, results) ==
    Negated(LeadingNots(cond),
            Len(Unnegated(cond)) >= 1 /\ Unnegated(cond)[1] \in DOMAIN results
                                      /\ results[Unnegated(cond)[1]])

RECURSIVE Fold(_, _, _)
\* acc op1 operand1 op2 operand2 ..., each operator applied as it is met
Fold(acc, rest, results) ==
    IF Len(rest) < 2 THEN acc
    ELSE LET operand == Tail(rest)
             n == LeadingNots(operand) + 1
             v == OperandValue(operand, results)
         IN  Fold(IF rest[1] = "and" THEN acc /\ v ELSE acc \/ v,
                  SubSeq(operand, n + 1, Len(operand)), results)

\* the operators applied left to right, "and" and "or" at one precedence
LeftToRight(cond, results) ==
    Fold(OperandValue(cond, results),
         SubSeq(cond, LeadingNots(cond) + 2, Len(cond)), results)

\* the pieces of cond between the occurrences of op
Pieces(cond, op) ==
    LET cuts == {0, Len(cond) + 1} \cup {i \in 1..Len(cond) : cond[i] = op}
    IN  {SubSeq(cond, lo + 1, hi - 1) :
            <<lo, hi>> \in {c \in cuts \X cuts :
                              c[1] < c[2] /\ \A m \in cuts : ~(c[1] < m /\ m < c[2])}}

\* "or" of the pieces between the "or", each the "and" of its pieces between
\* the "and"; a "not" in front of the condition, of an "or" piece or of an
\* "and" piece negates all that is left of it
NotScoped(cond, results) ==
    Negated(LeadingNots(cond),
        \E d \in Pieces(Unnegated(cond), "or") :
            Negated(LeadingNots(d),
                \A c \in Pieces(Unnegated(d), "and") : OperandValue(c, results)))

(* C9, as the claim has it: for every condition of selection names joined   *)
(* by and, or and not, and every truth assignment, _evaluate_condition      *)
(* returns the value of the operators applied left to right, "and" and      *)
(* "or" at the same precedence.                                             *)
C9_LeftToRight ==
    cond_value # {} => cond_value = {LeftToRight(condition, selection_results)}

(* C9, amended: _evaluate_condition returns the "or" of the parts between   *)
(* the "or", each part the "and" of its parts between the "and" ("and"      *)
(* binds tighter than "or"), and a "not" that starts the condition or a     *)
(* part negates the rest of that condition or part.                         *)
C9_OrOfAnds ==
    cond_value # {} => cond_value = {NotScoped(condition, selection_results)}

\* a condition with "not", "and" and "or" was evaluated, to another value
\* than left to right
C9_Witness ==
    /\ cond_value # {}
    /\ {"not", "and", "or"} \subseteq Range(condition)
    /\ cond_value # {LeftToRight(condition, selection_results)}

(* C10: a match that runs concurrently with a rule reload evaluates the     *)
(* event against the complete rule set from before the reload or the        *)
(* complete rule set from after it, never a partly loaded one.              *)
C10_MatchSeesCompleteSet ==
    match_result.op = "match" =>
        match_result.seen \in {match_result.before, match_result.after}

\* a match overlapped a reload that changed the rule set, and evaluated rules
C10_Witness ==
    /\ match_result.op = "match"
    /\ match_result.overlapped
    /\ match_result.before # match_result.after
    /\ match_result.seen # <<>>

----------------------------------------------------------------------------
(* Properties of the detection engine *)

(* C11: analyze returns a list of detections for every event and never      *)
(* raises to its caller, whichever sub-step (rule matcher, anomaly          *)
(* detector, MITRE enricher, scorer) fails; the remaining sub-steps run.    *)
C11_AnalyzeNeverRaises ==
    analyze_result.op = "analyze" =>
        /\ ~analyze_result.result.raised
        /\ engine_components \cap {"sigma", "anomaly"} \subseteq analyze_result.result.ran

----------------------------------------------------------------------------
(* Properties of the syslog collector *)

\* the dropped-message counter, 0 when _stats has none
Dropped(stats) == IF "dropped" \in DOMAIN stats THEN stats["dropped"] ELSE 0

(* C12: when a syslog message arrives while the bounded queue is full, the  *)
(* oldest queued message is discarded, the new message is enqueued and a    *)
(* dropped-message counter increases by one.                                *)
C12_DropOldest ==
    (/\ syslog_last.op = "_process_message"
     /\ ~syslog_last.raised
     /\ full(syslog_last.queue_before)) =>
        /\ _message_queue = {Append(Tail(syslog_last.queue_before), syslog_last.msg)}
        /\ Dropped(_stats) = Dropped(syslog_last.stats_before) + 1

----------------------------------------------------------------------------
(* Properties of the file watcher *)

\* the paths the last poll found rotated: known before it, with another
\* inode than the recorded one or a size below the recorded offset
RotatedPaths ==
    {p \in WatchedPaths :
        /\ watch_last.report[p].tracked
        /\ watch_last.report[p].inode_changed \/ watch_last.report[p].shrunk}

----------------------------------------------------------------------------
(* Properties of the ingest path *)

\* the frames of the last call the registry has no parser for
Unparsed(frames) ==
    {i \in 1..Len(frames) :
        detect_parser(_register_default_parsers(EmptyRegistry), frames[i]) = NoParser}

\* C14: every frame the registry yields no event for leaves an event of kind
\* pipeline_error that retains the raw bytes of the frame.
C14_PipelineErrorEmitted ==
    ingest_last.op # "none" =>
        \A i \in Unparsed(ingest_last.frames) :
            \E j \in 1..Len(ingest_last.events) :
                /\ ingest_last.events[j].kind = "pipeline_error"
                /\ ingest_last.events[j].raw = ingest_last.frames[i]

----------------------------------------------------------------------------
(* Properties of the anomaly detector *)

\* the last call was a detect of a detector that started without a model
\* and was still warming
WarmingDetect ==
    /\ detect_last.op = "detect"
    /\ cold_start
    /\ ~detect_last.before._is_trained

\* the last call was a detect of a trained detector
TrainedDetect ==
    /\ detect_last.op = "detect"
    /\ detect_last.before._is_trained

\* a trained detect scores its event and stays trained
ScoresEvent ==
    /\ detect_last.after._is_trained
    /\ detect_last.scored
    /\ (detect_last.result # {}) = (detect_last.score >= threshold)

----------------------------------------------------------------------------
(* Properties of the alert status *)

\* the place of a status in new -> acknowledged -> investigating ->
\* {resolved, false_positive}
StatusRank(status) ==
    CASE status = "new" -> 1
      [] status = "acknowledged" -> 2
      [] status = "investigating" -> 3
      [] status \in {"resolved", "false_positive"} -> 4
      [] OTHER -> 0

\* C16: an acknowledge or update_status call leaves the alert at one of the
\* five statuses, not earlier in the lifecycle than it was, and leaves a
\* resolved or false_positive alert as it was.
C16_StatusMovesForward ==
    (alert_last.op # "none" /\ alert_last.before # {}) =>
        \A b \in alert_last.before, a \in alert_last.after :
            /\ a.status \in valid_statuses
            /\ StatusRank(a.status) >= StatusRank(b.status)
            /\ StatusRank(b.status) = 4 => a.status = b.status

----------------------------------------------------------------------------
(* Properties of the subscription bus *)

\* C25: a broadcast that has ended did not fail and handed the message to
\* exactly the subscribers that were its targets when it started, whatever
\* connected or disconnected in between.
C25_BroadcastOverSnapshot ==
    broadcast_last.op = "broadcast" =>
        /\ ~broadcast_last.raised
        /\ broadcast_last.sent \cup broadcast_last.disconnected = broadcast_last.targets

\* C17: a broadcast never waits on one subscriber for longer than the send
\* timeout of 100 ms, which is one tick.
C17_SendBoundedByTimeout ==
    broadcast.pc = "sending" => broadcast.waited <= 1

----------------------------------------------------------------------------
(* Properties of the event store *)

\* the unhashed rows that come after after_id in id order
UnhashedAfter(after_id) ==
    {r \in event_rows : r.batch_id = {} /\ \A a \in after_id : r.id > a}

\* C18: get_batch_for_hashing(size, after_id) returns at most size events,
\* none of them stamped with a block, in ascending id order, and they are
\* the first unhashed events after after_id in that order.
C18_NextUnhashedInIdOrder ==
    batch_last.op = "get_batch_for_hashing" =>
        LET batch == batch_last.events
            after == UnhashedAfter(batch_last.after_id)
        IN  /\ Len(batch) <= batch_last.batch_size
            /\ \A i \in 1..Len(batch) : batch[i].batch_id = {}
            /\ \A i, j \in 1..Len(batch) : i < j => batch[i].id < batch[j].id
            /\ Range(batch) \subseteq after
            /\ Len(batch) = Min(batch_last.batch_size, Cardinality(after))
            /\ \A r \in after \ Range(batch) : \A i \in 1..Len(batch) : batch[i].id < r.id

\* C19: the store holds at most one event per content hash.
C19_OneEventPerContentHash ==
    \A i, j \in 1..Len(persisted) :
        persisted[i].hash = persisted[j].hash => i = j

\* C20: of two events of the same source, the one persisted first has the
\* id that sorts first.
C20_IdsFollowArrival ==
    \A i, j \in 1..Len(persisted) :
        (i < j /\ persisted[i].source = persisted[j].source) =>
            persisted[i].id < persisted[j].id

----------------------------------------------------------------------------
(* Properties of the shutdown *)

\* C21: when the shutdown has closed the stores, no frame is accepted any
\* more, no frame is left in the queue and no event is left unhashed.
C21_DrainedBeforeClose ==
    shutdown_last.op = "shutdown" =>
        /\ ~shutdown_last.lifecycle.listening
        /\ shutdown_last.lifecycle.tcp_clients = 0
        /\ shutdown_last.pending.queued = 0
        /\ shutdown_last.pending.unhashed = 0

----------------------------------------------------------------------------
(* Properties of the threat score *)

\* C22: a scored rule detection of severity medium with technique T1110 has
\* a threat score of 40 to 70 points.
C22_MediumBruteForceScore ==
    \A d \in scored_detection :
        (/\ scoring_step = "scored"
         /\ d.detection_type = "sigma"
         /\ d.severity = "medium"
         /\ "T1110" \in d.mitre_techniques) =>
            (d.threat_score >= 400000 /\ d.threat_score <= 700000)

----------------------------------------------------------------------------
(* Properties of the inclusion check *)

\* the content hashes of the batch of the call
BatchHashes ==
    [i \in 1..Len(incl_args.batch_events) |-> hash_event(incl_args.batch_events[i])]

\* the call returned and reported valid
ReportedValid ==
    /\ incl_result.op = "verify_event_in_batch"
    /\ ~incl_result.result.raised
    /\ incl_result.result.valid

\* C23: when verify_event_in_batch reports valid, the content hash of the
\* event is among those of the batch, the Merkle root of the batch is the
\* expected root, and the position is an index of the batch that holds the
\* hash of the event.
C23_ValidMeansIncluded ==
    ReportedValid =>
        /\ hash_event(incl_args.event) \in Range(BatchHashes)
        /\ compute_merkle_root(BatchHashes) = incl_args.root
        /\ \E p \in incl_result.result.position :
              /\ p + 1 \in 1..Len(BatchHashes)
              /\ BatchHashes[p + 1] = hash_event(incl_args.event)

\* a valid report for an event that is not the first of a batch of three
C23_Witness ==
    /\ ReportedValid
    /\ Len(incl_args.batch_events) = 3
    /\ incl_result.result.position = {1}

----------------------------------------------------------------------------
(* Properties of the ledger under concurrent writers *)

\* C24: no two stored blocks have the same previous_hash, and every block
\* after the first has the block_hash of its id-predecessor as
\* previous_hash.
C24_NoForkUnderConcurrency ==
    /\ \A i, j \in 1..Len(ledger_rows) :
          ledger_rows[i].previous_hash = ledger_rows[j].previous_hash => i = j
    /\ \A i \in 2..Len(ledger_rows) :
          ledger_rows[i].previous_hash = ledger_rows[i - 1].block_hash

\* C28: after import_blockchain answered success with blocks_imported = n,
\* get_chain on the importing instance returns the n blocks of the package.
C28_ImportedBlocksStored ==
    (/\ last_call.op = "import_blockchain"
     /\ ~last_call.result.raised
     /\ last_call.result.success)
    => LET stored == get_chain(importer_blocks, NoneInt, NoneInt, DefaultLimit)
       IN  /\ Len(package.chain_file.data) = last_call.result.blocks_imported
           /\ \A i \in 1..last_call.result.blocks_imported :
                  \E j \in 1..Len(stored) :
                      stored[j].block_hash = package.chain_file.data[i].block_hash

\* C30: the detector's sample buffer never holds more samples than the
\* number that starts a training (1000 in the program), however many events
\* detect was given and whether or not the model is trained.
C30_BufferBounded ==
    \A d \in detector : d._event_buffer <= _min_training_samples

----------------------------------------------------------------------------
(* Properties of the watcher on an appended file *)

\* the newline-terminated lines of a text: its lines without the
\* unterminated rest
CompleteLines(text) ==
    LET ends == {i \in 1..Len(text) : text[i] = "\n"}
    IN  IF ends = {} THEN <<>>
        ELSE splitlines(SubSeq(text, 1, CHOOSE e \in ends : \A o \in ends : e >= o))

\* C27: for a file tracked from the start of a line and never rotated, what
\* on_new_lines has been given after a poll is the sequence of the
\* newline-terminated lines appended since the file was tracked: each line
\* once, whole and in order, also when the poll came in the middle of a line.
C27_LinesDeliveredWhole ==
    \A start \in tail_start :
        (/\ tail_last = "poll"
         /\ (start = 0 \/ tail_content[start] = "\n"))
        => tail_delivered =
               CompleteLines(SubSeq(tail_content, start + 1, Len(tail_content)))

----------------------------------------------------------------------------
(* Properties of the behavioral baseline *)

\* C29: a baseline that started without saved profiles is out of learning
\* mode only once at least 7 days have elapsed and at least 1000 events
\* have been processed.
C29_LearningUntilSevenDaysAndThousandEvents ==
    ~_learning_mode => (elapsed_days >= 7 /\ _events_processed >= 1000)

=============================================================================
